---- MODULE Spec2Model ----
(***************************************************************************)
(* Wire decoder and live-state engine of the bet365 WebSocket parser       *)
(* (src/bet365-ws/src/parser.ts).                                          *)
(*                                                                         *)
(* Strings of the program are TLA+ strings; a character is a string of     *)
(* length 1.  The control bytes of the protocol cannot be written in a     *)
(* TLA+ string literal, so each is represented by one printable character  *)
(* that occurs nowhere else in the modelled payloads:                      *)
(*     0x15 NAK -> "!"    0x14 DC4 -> "$"    0x01 SOH -> "^"               *)
(*     0x08 BS  -> "<"    0x00 NUL -> "%"    0x1E RS  -> "&"               *)
(* Numeric strings of the modelled payloads carry no "." and no exponent,  *)
(* so parseFloat and parseInt read the same digits.                        *)
(***************************************************************************)
EXTENDS Integers, Sequences, FiniteSets, TLC

NAK == "!"
DC4 == "$"
SOH == "^"
BS == "<"
NUL == "%"
RS == "&"

\* ---------------------------------------------------------------------------
\* String primitives of the JavaScript runtime, as the parser uses them
\* ---------------------------------------------------------------------------

\* s.slice(a - 1, b) with 1-based inclusive bounds, clipped to the string
Sub(s, a, b) ==
    LET lo == IF a < 1 THEN 1 ELSE a
        hi == IF b > Len(s) THEN Len(s) ELSE b
    IN  IF lo > hi THEN "" ELSE SubSeq(s, lo, hi)

Ch(s, i) == Sub(s, i, i)

Slice(s, from) == Sub(s, from, Len(s))

Digits == {"0", "1", "2", "3", "4", "5", "6", "7", "8", "9"}

DigitVal(c) ==
    CASE c = "0" -> 0 [] c = "1" -> 1 [] c = "2" -> 2 [] c = "3" -> 3
      [] c = "4" -> 4 [] c = "5" -> 5 [] c = "6" -> 6 [] c = "7" -> 7
      [] c = "8" -> 8 [] c = "9" -> 9

MinOf(S) == CHOOSE i \in S : \A j \in S : i <= j

MaxOf(S) == CHOOSE i \in S : \A j \in S : i >= j

\* String.prototype.indexOf: 1-based position of the first occurrence, 0 when absent
IndexOf(s, sub) ==
    LET hits == {i \in 1..(Len(s) - Len(sub) + 1) : Sub(s, i, i + Len(sub) - 1) = sub}
    IN  IF hits = {} THEN 0 ELSE MinOf(hits)

Includes(s, sub) == IndexOf(s, sub) # 0

StartsWith(s, pre) == Len(s) >= Len(pre) /\ Sub(s, 1, Len(pre)) = pre

EndsWith(s, suf) == Len(s) >= Len(suf) /\ Sub(s, Len(s) - Len(suf) + 1, Len(s)) = suf

DropLast(s, n) == Sub(s, 1, Len(s) - n)

\* String.prototype.split with a non-empty separator
RECURSIVE Split(_, _)
Split(s, sep) ==
    LET i == IndexOf(s, sep)
    IN  IF i = 0 THEN <<s>>
        ELSE <<Sub(s, 1, i - 1)>> \o Split(Slice(s, i + Len(sep)), sep)

\* String.prototype.trim (the only white space of the modelled payloads is " ")
Trim(s) ==
    LET keep == {i \in 1..Len(s) : Ch(s, i) # " "}
    IN  IF keep = {} THEN "" ELSE Sub(s, MinOf(keep), MaxOf(keep))

\* Array.prototype.join
RECURSIVE Join(_, _)
Join(parts, sep) ==
    IF Len(parts) = 0 THEN ""
    ELSE IF Len(parts) = 1 THEN parts[1]
    ELSE parts[1] \o sep \o Join(Tail(parts), sep)

\* length of the longest prefix of s made of decimal digits
DigitPrefixLen(s) == MaxOf({k \in 0..Len(s) : \A i \in 1..k : Ch(s, i) \in Digits})

IsDigits(s) == Len(s) > 0 /\ DigitPrefixLen(s) = Len(s)

RECURSIVE ToNat(_)
ToNat(d) == IF d = "" THEN 0 ELSE ToNat(DropLast(d, 1)) * 10 + DigitVal(Ch(d, Len(d)))

\* parseInt(s, 10) and parseFloat(s): [nan |-> TRUE] when no number can be read,
\* otherwise the integer read from the optional sign and the leading digits
ParseNumber(s) ==
    LET read(neg, body) ==
            LET n == DigitPrefixLen(body)
            IN  IF n = 0 THEN [nan |-> TRUE, val |-> 0]
                ELSE [nan |-> FALSE,
                      val |-> (IF neg THEN 0 - 1 ELSE 1) * ToNat(Sub(body, 1, n))]
        signed(t) ==
            read(StartsWith(t, "-"),
                 IF StartsWith(t, "-") \/ StartsWith(t, "+") THEN Slice(t, 2) ELSE t)
    IN  signed(Trim(s))

\* parseInt(x, 10) || 0
ParseIntOr0(s) == ParseNumber(s).val

\* ---------------------------------------------------------------------------
\* Sport registry
\* ---------------------------------------------------------------------------

SPORT_REGISTRY ==
    [s \in {"1", "12", "13", "14", "17", "18", "92"} |->
        CASE s = "1"  -> [name |-> "Soccer", folder |-> "soccer",
                          nameSeparators |-> <<" v ", " vs ">>,
                          usesSetScoring |-> FALSE, hasServing |-> FALSE, hasPointScore |-> FALSE]
          [] s = "12" -> [name |-> "Football", folder |-> "american-football",
                          nameSeparators |-> <<" @ ", " v ">>,
                          usesSetScoring |-> FALSE, hasServing |-> FALSE, hasPointScore |-> FALSE]
          [] s = "13" -> [name |-> "Tennis", folder |-> "tennis",
                          nameSeparators |-> <<" v ">>,
                          usesSetScoring |-> TRUE, hasServing |-> TRUE, hasPointScore |-> TRUE]
          [] s = "14" -> [name |-> "Snooker", folder |-> "snooker",
                          nameSeparators |-> <<" v ">>,
                          usesSetScoring |-> TRUE, hasServing |-> FALSE, hasPointScore |-> FALSE]
          [] s = "17" -> [name |-> "Hockey", folder |-> "hockey",
                          nameSeparators |-> <<" @ ", " v ", " vs ">>,
                          usesSetScoring |-> FALSE, hasServing |-> FALSE, hasPointScore |-> FALSE]
          [] s = "18" -> [name |-> "Basketball", folder |-> "basketball",
                          nameSeparators |-> <<" @ ", " vs ", " v ">>,
                          usesSetScoring |-> FALSE, hasServing |-> FALSE, hasPointScore |-> FALSE]
          [] s = "92" -> [name |-> "Table Tennis", folder |-> "table-tennis",
                          nameSeparators |-> <<" v ">>,
                          usesSetScoring |-> TRUE, hasServing |-> TRUE, hasPointScore |-> TRUE]]

\* the keys of the registry: the registered sports
Supported(sportId) == sportId \in DOMAIN SPORT_REGISTRY

\* SPORT_REGISTRY is an object literal: a lookup under one of these names finds
\* the member it inherits from Object.prototype, which is not a SportConfig
ObjectPrototypeKeys ==
    {"constructor", "hasOwnProperty", "isPrototypeOf", "propertyIsEnumerable",
     "toLocaleString", "toString", "valueOf", "__proto__", "__defineGetter__",
     "__defineSetter__", "__lookupGetter__", "__lookupSetter__"}

\* !!SPORT_REGISTRY[sportId]
hasConfig(sportId) == Supported(sportId) \/ sportId \in ObjectPrototypeKeys

\* ---------------------------------------------------------------------------
\* Low-level parsers
\* ---------------------------------------------------------------------------

\* a field read as `f.K || ""`: absent and empty are both ""
Fld(f, k) == IF k \in DOMAIN f THEN f[k] ELSE ""

\* `f.K !== undefined`
Has(f, k) == k \in DOMAIN f

NoFields == [k \in {} |-> ""]

RECURSIVE parseFieldsFrom(_, _)
parseFieldsFrom(parts, fields) ==
    IF Len(parts) = 0 THEN fields
    ELSE LET part  == Head(parts)
             eqIdx == IndexOf(part, "=")
         IN  IF part = "" THEN parseFieldsFrom(Tail(parts), fields)
             ELSE IF eqIdx = 0
                  THEN parseFieldsFrom(Tail(parts), ("_type" :> part) @@ fields)
                  \* fields is an object literal: an assignment of a string to
                  \* fields["__proto__"] goes to the setter it inherits and stores nothing
                  ELSE IF Sub(part, 1, eqIdx - 1) = "__proto__"
                  THEN parseFieldsFrom(Tail(parts), fields)
                  ELSE parseFieldsFrom(Tail(parts),
                           (Sub(part, 1, eqIdx - 1) :> Slice(part, eqIdx + 1)) @@ fields)

parseFields(raw) == IF raw = "" THEN NoFields ELSE parseFieldsFrom(Split(raw, ";"), NoFields)

detectRecordType(fields) ==
    IF Fld(fields, "_type") \in {"CL", "CT", "EV", "MA", "PA", "MG", "CG"}
    THEN fields["_type"] ELSE "unknown"

\* id.replace(/_(32(_0)?[UDF]?)$/, "")
StripSuffix(id) ==
    LET core == IF Len(id) > 0 /\ Ch(id, Len(id)) \in {"U", "D", "F"} THEN DropLast(id, 1) ELSE id
    IN  IF EndsWith(core, "_32_0") THEN DropLast(core, 5)
        ELSE IF EndsWith(core, "_32") THEN DropLast(core, 3)
        ELSE id

UnknownId ==
    [eventId |-> "", categoryId |-> "", fixtureId |-> "", selectionId |-> "",
     marketNum |-> "", type |-> "unknown"]

\* the alternatives (OV|6V) of the event and market patterns, (OV|6VP?|OVES) of the
\* selection pattern: the texts left after each prefix that matches
AfterPrefix(s, prefixes) == {Slice(s, Len(p) + 1) : p \in {q \in prefixes : StartsWith(s, q)}}

\* the selection id with a zero in front of it kept
paMatchSelectionId_keepZero(digits) == digits

\* the group (\d+) of -0?(\d+)$ in the selection pattern: the digits after the
\* dash, without one leading zero when other digits follow it
paMatchSelectionId(digits) ==
    IF Len(digits) >= 2 /\ Ch(digits, 1) = "0" THEN Slice(digits, 2) ELSE digits

parseItemId(id) ==
    LET \* <digits>C<digits>A
        isEvent(r, n) ==
            /\ n > 0
            /\ Ch(r, n + 1) = "C"
            /\ EndsWith(r, "A")
            /\ IsDigits(Sub(r, n + 2, Len(r) - 1))
        event(r, n) ==
            [UnknownId EXCEPT !.type = "event",
                              !.eventId = Sub(r, 1, n),
                              !.categoryId = Sub(r, n + 2, Len(r) - 1)]
        \* <digits>C<digits>-<digits>
        isMarket(r, n, t, m) ==
            /\ n > 0
            /\ Ch(r, n + 1) = "C"
            /\ m > 0
            /\ Ch(t, m + 1) = "-"
            /\ IsDigits(Slice(t, m + 2))
        market(r, n, t, m) ==
            [UnknownId EXCEPT !.type = "market",
                              !.eventId = Sub(r, 1, n),
                              !.categoryId = Sub(t, 1, m),
                              !.marketNum = Slice(t, m + 2)]
        marketTail(r, n, t) == market(r, n, t, DigitPrefixLen(t))
        \* <digits>-0?<digits>
        isSelection(r, n) ==
            /\ n > 0
            /\ Ch(r, n + 1) = "-"
            /\ IsDigits(Slice(r, n + 2))
        selection(r, n, sel) ==
            [UnknownId EXCEPT !.type = "selection",
                              !.fixtureId = Sub(r, 1, n),
                              !.selectionId = paMatchSelectionId(sel)]
        first(S) == CHOOSE x \in S : TRUE
        byType(evRest, maRest, paRest) ==
            IF evRest # {} THEN first(evRest)
            ELSE IF maRest # {} THEN first(maRest)
            ELSE IF paRest # {} THEN first(paRest)
            ELSE UnknownId
        match(short, long) ==
            byType({event(r, DigitPrefixLen(r)) :
                        r \in {x \in short : isEvent(x, DigitPrefixLen(x))}},
                   {marketTail(r, DigitPrefixLen(r), Slice(r, DigitPrefixLen(r) + 2)) :
                        r \in {x \in short :
                                  isMarket(x, DigitPrefixLen(x),
                                           Slice(x, DigitPrefixLen(x) + 2),
                                           DigitPrefixLen(Slice(x, DigitPrefixLen(x) + 2)))}},
                   {selection(r, DigitPrefixLen(r), Slice(r, DigitPrefixLen(r) + 2)) :
                        r \in {x \in long : isSelection(x, DigitPrefixLen(x))}})
        prefixed(clean) ==
            match(AfterPrefix(clean, {"OV", "6V"}),
                  AfterPrefix(clean, {"OV", "6V", "6VP", "OVES"}))
    IN  prefixed(StripSuffix(id))

\* ---------------------------------------------------------------------------
\* Frame splitting
\* ---------------------------------------------------------------------------

\* raw.replace(/[\x14\x15]/g, "\x1E").replace(/[\x00\x01\x08]/g, "")
RECURSIVE Normalize(_)
Normalize(raw) ==
    IF raw = "" THEN ""
    ELSE IF Len(raw) = 1
    THEN (IF raw \in {DC4, NAK} THEN RS ELSE IF raw \in {NUL, SOH, BS} THEN "" ELSE raw)
    ELSE LET half == Len(raw) \div 2
         IN  Normalize(Sub(raw, 1, half)) \o Normalize(Slice(raw, half + 1))

cleanAndSplit(raw) == SelectSeq(Split(Normalize(raw), RS), LAMBDA c : Len(c) > 0)

\* /^EMPTY/i
StartsWithEmptyWord(s) ==
    /\ Ch(s, 1) \in {"E", "e"}
    /\ Ch(s, 2) \in {"M", "m"}
    /\ Ch(s, 3) \in {"P", "p"}
    /\ Ch(s, 4) \in {"T", "t"}
    /\ Ch(s, 5) \in {"Y", "y"}

\* header detection that does not know the delete action
isTopicHeader_noDelete(segment) ==
    IF segment = "" THEN FALSE
    ELSE \/ \E a \in {"F", "U"} : EndsWith(segment, "_32_0" \o a)
         \/ \E a \in {"F", "U"} : EndsWith(segment, "_32" \o a)
         \/ (Len(segment) = 6 /\ StartsWithEmptyWord(segment)
                 /\ Ch(segment, 6) \in {"F", "U", "f", "u"})
         \/ segment = "__time"
         \/ StartsWith(segment, "#")

isTopicHeader(segment) ==
    IF segment = "" THEN FALSE
    ELSE \/ \E a \in {"F", "U", "D"} : EndsWith(segment, "_32_0" \o a)
         \/ \E a \in {"F", "U", "D"} : EndsWith(segment, "_32" \o a)
         \/ (Len(segment) = 6 /\ StartsWithEmptyWord(segment)
                 /\ Ch(segment, 6) \in {"F", "U", "D", "f", "u", "d"})
         \/ segment = "__time"
         \/ StartsWith(segment, "#")

\* the loop of the pipe-based fallback: subMessages collected so far, current group
RECURSIVE groupByHeader(_, _, _)
groupByHeader(parts, subMessages, current) ==
    IF Len(parts) = 0
    THEN IF Len(current) > 0 THEN Append(subMessages, current) ELSE subMessages
    ELSE IF isTopicHeader(Head(parts))
         THEN groupByHeader(Tail(parts),
                            IF Len(current) > 0 THEN Append(subMessages, current) ELSE subMessages,
                            <<Head(parts)>>)
         ELSE groupByHeader(Tail(parts), subMessages, Append(current, Head(parts)))

splitFrame(raw) ==
    LET split(chunks) ==
            IF Len(chunks) > 1
            THEN [i \in 1..Len(chunks) |-> Split(chunks[i], "|")]
            ELSE groupByHeader(Split(IF Len(chunks) = 1 THEN chunks[1] ELSE raw, "|"),
                               <<>>, <<>>)
    IN  split(cleanAndSplit(raw))

\* ---------------------------------------------------------------------------
\* Score parsers
\* ---------------------------------------------------------------------------

\* a set read with its two sides exchanged
parseOneSet_swapped(set) ==
    LET pair(ab) == <<ParseIntOr0(IF Len(ab) >= 2 THEN ab[2] ELSE ""), ParseIntOr0(ab[1])>>
    IN  pair(Split(set, "-"))

\* one element of the map in parseSetScores: [parseInt(a, 10) || 0, parseInt(b, 10) || 0]
parseOneSet(set) ==
    LET pair(ab) == <<ParseIntOr0(ab[1]), ParseIntOr0(IF Len(ab) >= 2 THEN ab[2] ELSE "")>>
    IN  pair(Split(set, "-"))

parseSetScores(ss) ==
    IF ss = "" THEN <<>>
    ELSE LET each(sets) == [i \in 1..Len(sets) |-> parseOneSet(sets[i])]
         IN  each(Split(ss, ","))

\* match.sets.map((s) => s.join("-")).join(",")
serializeSets(sets) ==
    Join([i \in 1..Len(sets) |-> ToString(sets[i][1]) \o "-" \o ToString(sets[i][2])], ",")

parsePointScore(xp) ==
    IF xp = "" THEN [p1 |-> "0", p2 |-> "0"]
    ELSE LET game(h) ==
                 [p1 |-> IF h[1] = "" THEN "0" ELSE h[1],
                  p2 |-> IF Len(h) >= 2 /\ h[2] # "" THEN h[2] ELSE "0"]
         IN  game(Split(xp, "-"))

RECURSIVE GCD(_, _)
GCD(a, b) == IF b = 0 THEN a ELSE GCD(b, a % b)

Abs(x) == IF x < 0 THEN 0 - x ELSE x

\* a JavaScript number that is the quotient of two integers, in lowest terms with a
\* positive denominator; NaN has its own value
Rational(n, d) ==
    LET g == GCD(Abs(n), Abs(d))
        sgn == IF d < 0 THEN 0 - 1 ELSE 1
    IN  [nan |-> FALSE, num |-> sgn * (n \div g), den |-> sgn * (d \div g)]

NaN == [nan |-> TRUE, num |-> 0, den |-> 1]

Zero == [nan |-> FALSE, num |-> 0, den |-> 1]

fractionalToDecimal(odds) ==
    IF odds = "" \/ ~Includes(odds, "/") THEN Zero
    ELSE LET decimal(n, d) ==
                 IF d.nan \/ d.val = 0 THEN Zero
                 ELSE IF n.nan THEN NaN
                 ELSE Rational(n.val + d.val, d.val)
             parts(nd) == decimal(ParseNumber(nd[1]), ParseNumber(nd[2]))
         IN  parts(Split(odds, "/"))

\* parseServing with the default of 2 for an empty PI
parseServing_emptyIsTwo(pi) ==
    IF pi = "" THEN 2
    ELSE IF Split(pi, ",")[1] = "1" THEN 1 ELSE 2

parseServing(pi) ==
    IF pi = "" THEN 1
    ELSE IF Split(pi, ",")[1] = "1" THEN 1 ELSE 2

\* the first separator of the list that occurs in name, as the pair the two loops
\* return; <<name, "">> when none occurs
RECURSIVE splitAtFirst(_, _)
splitAtFirst(name, seps) ==
    IF Len(seps) = 0 THEN <<name, "">>
    ELSE LET at(idx) ==
                 IF idx # 0
                 THEN <<Trim(Sub(name, 1, idx - 1)), Trim(Slice(name, idx + Len(Head(seps))))>>
                 ELSE splitAtFirst(name, Tail(seps))
         IN  at(IndexOf(name, Head(seps)))

\* for (const sep of config.nameSeparators) on a config that is not a SportConfig:
\* nameSeparators is undefined and the loop raises a TypeError
parseTeamsThrows(sportId) == hasConfig(sportId) /\ ~Supported(sportId)

parseTeams(name, sportId) ==
    splitAtFirst(name, (IF Supported(sportId) THEN SPORT_REGISTRY[sportId].nameSeparators ELSE <<>>)
                           \o <<" v ", " vs ", " @ ">>)

\* ---------------------------------------------------------------------------
\* State manager: the world as a value
\* ---------------------------------------------------------------------------

\* A Map that is only ever looked up by key (fixtureToEvent, selectionInfo,
\* itemToEvent) is a function on its keys.  A Map that is iterated (matches,
\* match.markets) is the sequence of its values in insertion order: set() of a
\* key already present replaces the value in place, set() of a new key appends.

EmptyMap == [k \in {} |-> ""]

MapPut(m, k, v) == (k :> v) @@ m

\* position of the match with this eventId in the match table, 0 when absent
\* a lookup that takes the first match of the table for an eventId it does not hold
matchIndex_firstWhenAbsent(ms, eventId) ==
    LET hits == {i \in 1..Len(ms) : ms[i].eventId = eventId}
    IN  IF hits = {} THEN (IF Len(ms) > 0 THEN 1 ELSE 0) ELSE MinOf(hits)

matchIndex(ms, eventId) ==
    LET hits == {i \in 1..Len(ms) : ms[i].eventId = eventId}
    IN  IF hits = {} THEN 0 ELSE MinOf(hits)

\* this.matches.set(eventId, match)
matchesSet(ms, match) ==
    LET i == matchIndex(ms, match.eventId)
    IN  IF i = 0 THEN Append(ms, match) ELSE [ms EXCEPT ![i] = match]

\* this.matches.delete(eventId)
matchesDelete(ms, eventId) == SelectSeq(ms, LAMBDA m : m.eventId # eventId)

marketIndex(markets, id) ==
    LET hits == {i \in 1..Len(markets) : markets[i].id = id}
    IN  IF hits = {} THEN 0 ELSE MinOf(hits)

\* match.markets.set(market.id, market)
marketsSet(markets, market) ==
    LET i == marketIndex(markets, market.id)
    IN  IF i = 0 THEN Append(markets, market) ELSE [markets EXCEPT ![i] = market]

\* the fields of StateManager after construction
EmptyState ==
    [matches               |-> <<>>,
     fixtureToEvent        |-> EmptyMap,
     selectionInfo         |-> EmptyMap,
     itemToEvent           |-> EmptyMap,
     currentTournament     |-> "",
     currentTournamentCode |-> "",
     currentCategory       |-> "",
     currentSportId        |-> "",
     inSupportedSport      |-> FALSE,
     lastEventId           |-> "",
     threw                 |-> FALSE]

\* f.A || f.B || ""
FldOr(f, a, b) == IF Fld(f, a) # "" THEN f[a] ELSE Fld(f, b)

extractEventId(id) ==
    LET digits(rest, n) == IF n > 0 /\ Ch(rest, n + 1) = "C" THEN Sub(rest, 1, n) ELSE ""
        event(rest) == digits(rest, DigitPrefixLen(rest))
    IN  event(IF StartsWith(id, "OV") \/ StartsWith(id, "6V") THEN Slice(id, 3) ELSE id)

\* the SportMatch literal built for an EV record
\* a status that takes ES=0 for not started
esStatus_zeroIsPreMatch(es) == IF es \in {"", "0"} THEN "pre-match" ELSE "in-play"

\* f.ES === "" || f.ES === undefined ? "pre-match" : "in-play", es being "" for a
\* missing field
esStatus(es) == IF es = "" THEN "pre-match" ELSE "in-play"

newMatch(st, f, eventId, sportId) ==
    LET match(sportConfig, teams) ==
        [eventId        |-> eventId,
         fixtureId      |-> Fld(f, "OI"),
         itemId         |-> FldOr(f, "IT", "ID"),
         name           |-> Fld(f, "NA"),
         sportId        |-> sportId,
         sportName      |-> sportConfig.name,
         team1          |-> teams[1],
         team2          |-> teams[2],
         tournament     |-> IF Fld(f, "CT") # "" THEN f["CT"] ELSE st.currentTournament,
         tournamentCode |-> IF Fld(f, "CC") # "" THEN f["CC"] ELSE st.currentTournamentCode,
         status         |-> esStatus(Fld(f, "ES")),
         scoreRaw       |-> Fld(f, "SS"),
         sets           |-> IF sportConfig.usesSetScoring THEN parseSetScores(Fld(f, "SS")) ELSE <<>>,
         currentGame    |-> IF sportConfig.hasPointScore THEN parsePointScore(Fld(f, "XP"))
                            ELSE [p1 |-> "0", p2 |-> "0"],
         serving        |-> IF sportConfig.hasServing THEN parseServing(Fld(f, "PI")) ELSE 0,
         markets        |-> <<>>,
         lastUpdated    |-> Fld(f, "TU"),
         scheduledStart |-> ParseIntOr0(Fld(f, "SM"))]
    IN  match(SPORT_REGISTRY[sportId], parseTeams(Fld(f, "NA"), sportId))

\* one iteration of the loop of processFullDump over a record seg
\* the sport of the context for every EV record, whatever CL it carries
eventSportId_contextOnly(f, currentSportId) == currentSportId

\* const sportId = f.CL || this.currentSportId
eventSportId(f, currentSportId) == IF Fld(f, "CL") # "" THEN f["CL"] ELSE currentSportId

dumpRecord(st, seg) ==
    LET f  == seg.fields
        rt == seg.recordType
        register(st1, eventId, match) ==
            [st1 EXCEPT
               !.matches = matchesSet(@, match),
               !.fixtureToEvent =
                   IF match.fixtureId # "" THEN MapPut(@, match.fixtureId, eventId) ELSE @,
               !.itemToEvent = MapPut(@, FldOr(f, "IT", "ID"), eventId),
               !.lastEventId = eventId]
        event(st1, eventId, sportId) ==
            IF eventId = "" THEN st1
            ELSE IF ~hasConfig(sportId) THEN st1
            ELSE IF parseTeamsThrows(sportId) THEN [st1 EXCEPT !.threw = TRUE]
            ELSE register(st1, eventId, newMatch(st1, f, eventId, sportId))
        market(st1, mi) ==
            IF mi = 0 THEN st1
            ELSE [st1 EXCEPT !.matches[mi].markets =
                     marketsSet(@, [id         |-> FldOr(f, "MA", "ID"),
                                    name       |-> Fld(f, "NA"),
                                    suspended  |-> Fld(f, "SU") = "1",
                                    selections |-> <<>>])]
        \* last: the last market of the match in iteration order
        push(st1, mi, last, sel) ==
            [st1 EXCEPT
               !.matches[mi].markets =
                   IF last > 0 THEN [@ EXCEPT ![last].selections = Append(@, sel)] ELSE @,
               !.selectionInfo =
                   IF Fld(f, "FI") # ""
                   THEN MapPut(@, Fld(f, "ID"),
                               [fixtureId |-> f["FI"], position |-> sel.position])
                   ELSE @]
        selection(st1, mi) ==
            IF mi = 0 THEN st1
            ELSE push(st1, mi, Len(st1.matches[mi].markets),
                      [id          |-> Fld(f, "ID"),
                       odds        |-> Fld(f, "OD"),
                       oddsDecimal |-> fractionalToDecimal(Fld(f, "OD")),
                       position    |-> ParseIntOr0(Fld(f, "OR")),
                       suspended   |-> Fld(f, "SU") = "1"])
        record(st1) ==
            IF ~st1.inSupportedSport THEN st1
            ELSE IF rt = "CT"
            THEN [st1 EXCEPT !.currentTournament = Fld(f, "NA"),
                             !.currentTournamentCode = FldOr(f, "CC", "ID"),
                             !.currentCategory = Fld(f, "L3")]
            ELSE IF rt = "EV"
            THEN event(st1, extractEventId(Fld(f, "ID")), eventSportId(f, st1.currentSportId))
            ELSE IF rt = "MA" /\ st1.lastEventId # ""
            THEN market(st1, matchIndex(st1.matches, st1.lastEventId))
            ELSE IF rt = "PA" /\ st1.lastEventId # ""
            THEN selection(st1, matchIndex(st1.matches, st1.lastEventId))
            ELSE st1
    IN  IF rt = "CL"
        THEN [st EXCEPT !.currentSportId = Fld(f, "CL"),
                        !.inSupportedSport = hasConfig(Fld(f, "CL"))]
        \* the EV record that carries a CL with a config adopts that sport
        ELSE record(IF rt = "EV" /\ Fld(f, "CL") # "" /\ hasConfig(f["CL"])
                    THEN [st EXCEPT !.currentSportId = f["CL"], !.inSupportedSport = TRUE]
                    ELSE st)

RECURSIVE dumpRecords(_, _)
dumpRecords(st, segments) ==
    IF Len(segments) = 0 \/ st.threw THEN st
    ELSE dumpRecords(dumpRecord(st, Head(segments)), Tail(segments))

\* processFullDump with a global dump that clears the match table only
processFullDump_keepIndexes(st, segments, isGlobalDump) ==
    LET reset   == [st EXCEPT !.inSupportedSport = FALSE,
                              !.currentSportId = "",
                              !.currentTournament = "",
                              !.currentTournamentCode = "",
                              !.currentCategory = "",
                              !.lastEventId = ""]
        cleared == IF isGlobalDump THEN [reset EXCEPT !.matches = <<>>] ELSE reset
    IN  dumpRecords(cleared, segments)

\* processFullDump that goes on in the parse context it finds
processFullDump_keepContext(st, segments, isGlobalDump) ==
    dumpRecords(IF isGlobalDump
                THEN [st EXCEPT !.matches = <<>>,
                                !.fixtureToEvent = EmptyMap,
                                !.selectionInfo = EmptyMap,
                                !.itemToEvent = EmptyMap]
                ELSE st,
                segments)

\* processFullDump that clears the tables under every header
processFullDump_alwaysClear(st, segments, isGlobalDump) ==
    LET reset == [st EXCEPT !.inSupportedSport = FALSE,
                            !.currentSportId = "",
                            !.currentTournament = "",
                            !.currentTournamentCode = "",
                            !.currentCategory = "",
                            !.lastEventId = ""]
    IN  dumpRecords([reset EXCEPT !.matches = <<>>,
                                  !.fixtureToEvent = EmptyMap,
                                  !.selectionInfo = EmptyMap,
                                  !.itemToEvent = EmptyMap],
                    segments)

\* processFullDump that empties the match table under every header
processFullDump_dropMatches(st, segments, isGlobalDump) ==
    LET reset == [st EXCEPT !.inSupportedSport = FALSE,
                            !.currentSportId = "",
                            !.currentTournament = "",
                            !.currentTournamentCode = "",
                            !.currentCategory = "",
                            !.lastEventId = ""]
    IN  dumpRecords(IF isGlobalDump
                    THEN [reset EXCEPT !.matches = <<>>,
                                       !.fixtureToEvent = EmptyMap,
                                       !.selectionInfo = EmptyMap,
                                       !.itemToEvent = EmptyMap]
                    ELSE [reset EXCEPT !.matches = <<>>],
                    segments)

processFullDump(st, segments, isGlobalDump) ==
    LET reset   == [st EXCEPT !.inSupportedSport = FALSE,
                              !.currentSportId = "",
                              !.currentTournament = "",
                              !.currentTournamentCode = "",
                              !.currentCategory = "",
                              !.lastEventId = ""]
        cleared == IF isGlobalDump
                   THEN [reset EXCEPT !.matches = <<>>,
                                      !.fixtureToEvent = EmptyMap,
                                      !.selectionInfo = EmptyMap,
                                      !.itemToEvent = EmptyMap]
                   ELSE reset
    IN  dumpRecords(cleared, segments)

RECURSIVE Flatten(_)
Flatten(seqs) == IF Len(seqs) = 0 THEN <<>> ELSE Head(seqs) \o Flatten(Tail(seqs))

\* header.replace(/[UD]$/, "")
stripAction(header) ==
    IF EndsWith(header, "U") \/ EndsWith(header, "D") THEN DropLast(header, 1) ELSE header

\* the event branch that reports the recorded changes before it looks at the action
eventResult_changesFirst(st, action, eventId, mi, updated, changes) ==
    IF Len(changes) > 0
    THEN [st     |-> [st EXCEPT !.matches[mi] = updated],
          update |-> <<[type |-> "score", eventId |-> eventId, changes |-> changes]>>]
    ELSE IF action = "D"
    THEN [st     |-> [st EXCEPT !.matches = matchesDelete(@, eventId)],
          update |-> <<[type |-> "delete", eventId |-> eventId, changes |-> <<"deleted">>]>>]
    ELSE [st |-> [st EXCEPT !.matches[mi] = updated], update |-> <<>>]

\* the end of the event branch of processUpdate: delete, score update or nothing
\* a score event for every update of a match, changed or not
eventResult_always(st, action, eventId, mi, updated, changes) ==
    IF action = "D"
    THEN [st     |-> [st EXCEPT !.matches = matchesDelete(@, eventId)],
          update |-> <<[type |-> "delete", eventId |-> eventId, changes |-> <<"deleted">>]>>]
    ELSE [st     |-> [st EXCEPT !.matches[mi] = updated],
          update |-> <<[type |-> "score", eventId |-> eventId, changes |-> changes]>>]

\* the outcome of an event delta whose delete takes the fixtures of the match out
\* of fixtureToEvent as well
eventResult_purgeFixtures(st, action, eventId, mi, updated, changes) ==
    IF action = "D"
    THEN [st     |-> [st EXCEPT !.matches = matchesDelete(@, eventId),
                                !.fixtureToEvent =
                                    [k \in {x \in DOMAIN @ : @[x] # eventId} |-> @[k]]],
          update |-> <<[type |-> "delete", eventId |-> eventId, changes |-> <<"deleted">>]>>]
    ELSE [st     |-> [st EXCEPT !.matches[mi] = updated],
          update |-> IF Len(changes) > 0
                     THEN <<[type |-> "score", eventId |-> eventId, changes |-> changes]>>
                     ELSE <<>>]

eventResult(st, action, eventId, mi, updated, changes) ==
    IF action = "D"
    THEN [st     |-> [st EXCEPT !.matches = matchesDelete(@, eventId)],
          update |-> <<[type |-> "delete", eventId |-> eventId, changes |-> <<"deleted">>]>>]
    ELSE [st     |-> [st EXCEPT !.matches[mi] = updated],
          update |-> IF Len(changes) > 0
                     THEN <<[type |-> "score", eventId |-> eventId, changes |-> changes]>>
                     ELSE <<>>]

\* the event branch of processUpdate, for the match at position mi
updateEvent(st, seg, parsedId, mi) ==
    LET f     == seg.fields
        match == st.matches[mi]
        \* SS
        chSS(sportConfig, newSets) ==
            IF ~Has(f, "SS") THEN <<>>
            ELSE IF sportConfig.usesSetScoring
                 THEN IF serializeSets(match.sets) # newSets
                      THEN <<"sets: " \o newSets>> ELSE <<>>
                 ELSE IF match.scoreRaw # f["SS"]
                      THEN <<"score: " \o f["SS"]>> ELSE <<>>
        \* XP
        chXP(doXP, newGame) ==
            IF doXP /\ (match.currentGame.p1 \o "-" \o match.currentGame.p2)
                           # (newGame.p1 \o "-" \o newGame.p2)
            THEN <<"game: " \o newGame.p1 \o "-" \o newGame.p2>> ELSE <<>>
        \* PI
        chPI(doPI, newServing) ==
            IF doPI /\ match.serving # newServing
            THEN <<"serving: P" \o ToString(newServing)>> ELSE <<>>
        updated(newSetsVal, newGame, newServing) ==
            [match EXCEPT
               !.scoreRaw    = IF Has(f, "SS") THEN f["SS"] ELSE @,
               !.sets        = newSetsVal,
               !.currentGame = newGame,
               !.serving     = newServing,
               !.lastUpdated = IF Fld(f, "TU") # "" THEN f["TU"] ELSE @,
               !.status      = IF Has(f, "ES") THEN esStatus(f["ES"]) ELSE @]
        result(sportConfig, newSetsVal, doXP, newGame, doPI, newServing) ==
            eventResult(st, seg.action, parsedId.eventId, mi,
                        updated(newSetsVal, newGame, newServing),
                        chSS(sportConfig, serializeSets(newSetsVal))
                            \o chXP(doXP, newGame) \o chPI(doPI, newServing))
        fields(sportConfig, doXP, doPI) ==
            result(sportConfig,
                   IF Has(f, "SS") /\ sportConfig.usesSetScoring
                   THEN parseSetScores(f["SS"]) ELSE match.sets,
                   doXP, IF doXP THEN parsePointScore(f["XP"]) ELSE match.currentGame,
                   doPI, IF doPI THEN parseServing(f["PI"]) ELSE match.serving)
        sport(sportConfig) ==
            fields(sportConfig, Has(f, "XP") /\ sportConfig.hasPointScore,
                   Has(f, "PI") /\ sportConfig.hasServing)
    IN  sport(SPORT_REGISTRY[parsedId.categoryId])

\* the body of the two nested loops of the selection branch for one selection
\* the update of a selection that leaves its suspended flag alone
updateSelection_oddsOnly(sel, f, selectionId) ==
    IF sel.id # selectionId THEN sel
    ELSE [sel EXCEPT
            !.odds        = IF Has(f, "OD") /\ f["OD"] # sel.odds THEN f["OD"] ELSE @,
            !.oddsDecimal = IF Has(f, "OD") /\ f["OD"] # sel.odds
                            THEN fractionalToDecimal(f["OD"]) ELSE @]

\* the update of a selection that stores the new fractional odds and keeps the
\* decimal odds it had
updateSelection_staleDecimal(sel, f, selectionId) ==
    IF sel.id # selectionId THEN sel
    ELSE [sel EXCEPT
            !.odds      = IF Has(f, "OD") /\ f["OD"] # sel.odds THEN f["OD"] ELSE @,
            !.suspended = IF Has(f, "SU") THEN f["SU"] = "1" ELSE @]

updateSelection(sel, f, selectionId) ==
    IF sel.id # selectionId THEN sel
    ELSE [sel EXCEPT
            !.odds        = IF Has(f, "OD") /\ f["OD"] # sel.odds THEN f["OD"] ELSE @,
            !.oddsDecimal = IF Has(f, "OD") /\ f["OD"] # sel.odds
                            THEN fractionalToDecimal(f["OD"]) ELSE @,
            !.suspended   = IF Has(f, "SU") THEN f["SU"] = "1" ELSE @]

\* the change string with "Draw" for every selection in position 1
selectionChange_drawAlways(match, market, sel, f, selectionId) ==
    IF sel.id = selectionId /\ Has(f, "OD") /\ f["OD"] # sel.odds
    THEN <<(IF sel.position = 0 THEN match.team1
            ELSE IF sel.position = 1 THEN "Draw" ELSE match.team2)
               \o ": " \o sel.odds \o " → " \o f["OD"]>>
    ELSE <<>>

\* the change string pushed for one selection, as a list of zero or one strings
\* the change string pushed for a selection whenever the delta carries OD, also
\* when the odds are the stored ones
selectionChange_everyDelta(match, market, sel, f, selectionId) ==
    IF sel.id = selectionId /\ Has(f, "OD")
    THEN <<(IF sel.position = 0 THEN match.team1
            ELSE IF sel.position = 1
                 THEN (IF Len(market.selections) >= 3 THEN "Draw" ELSE match.team2)
                 ELSE match.team2)
               \o ": " \o sel.odds \o " → " \o f["OD"]>>
    ELSE <<>>

selectionChange(match, market, sel, f, selectionId) ==
    IF sel.id = selectionId /\ Has(f, "OD") /\ f["OD"] # sel.odds
    THEN LET isThreeWay == Len(market.selections) >= 3
             teamName   == IF sel.position = 0 THEN match.team1
                           ELSE IF sel.position = 1
                                THEN (IF isThreeWay THEN "Draw" ELSE match.team2)
                                ELSE match.team2
         IN  <<teamName \o ": " \o sel.odds \o " → " \o f["OD"]>>
    ELSE <<>>

\* the changes list the selection branch accumulates over all markets of the match
selectionChanges(match, f, selectionId) ==
    Flatten([i \in 1..Len(match.markets) |->
        Flatten([j \in 1..Len(match.markets[i].selections) |->
            selectionChange(match, match.markets[i], match.markets[i].selections[j],
                            f, selectionId)])])

\* the selection branch returning one update per change string
oddsUpdate_perHit(eventId, changes) ==
    [i \in 1..Len(changes) |-> [type |-> "odds", eventId |-> eventId, changes |-> <<changes[i]>>]]

\* what the selection branch returns for its changes list
\* an odds event for every selection delta that resolves to a match
oddsUpdate_always(eventId, changes) ==
    <<[type |-> "odds", eventId |-> eventId, changes |-> changes]>>

oddsUpdate(eventId, changes) ==
    IF Len(changes) > 0
    THEN <<[type |-> "odds", eventId |-> eventId, changes |-> changes]>>
    ELSE <<>>

processUpdate(st, seg) ==
    LET f    == seg.fields
        none == [st |-> st, update |-> <<>>]
        event(parsedId, mi) ==
            IF mi = 0 THEN none ELSE updateEvent(st, seg, parsedId, mi)
        odds(eventId, match, mi, selectionId) ==
            [st     |-> [st EXCEPT !.matches[mi].markets =
                            [i \in 1..Len(match.markets) |->
                                [match.markets[i] EXCEPT !.selections =
                                    [j \in 1..Len(@) |->
                                        updateSelection(@[j], f, selectionId)]]]],
             update |-> oddsUpdate(eventId, selectionChanges(match, f, selectionId))]
        selection(eventId, mi, selectionId) ==
            IF mi = 0 THEN none ELSE odds(eventId, st.matches[mi], mi, selectionId)
        byType(parsedId) ==
            IF parsedId.type = "event"
            THEN IF ~Supported(parsedId.categoryId) THEN none
                 ELSE event(parsedId, matchIndex(st.matches, parsedId.eventId))
            ELSE IF parsedId.type = "selection"
            THEN IF parsedId.fixtureId \notin DOMAIN st.fixtureToEvent THEN none
                 ELSE selection(st.fixtureToEvent[parsedId.fixtureId],
                                matchIndex(st.matches, st.fixtureToEvent[parsedId.fixtureId]),
                                parsedId.selectionId)
            ELSE none
    IN  IF seg.header = "" THEN none ELSE byType(parseItemId(stripAction(seg.header)))

\* the records of a full-dump sub-message: parts[1..] trimmed, empty ones skipped
RECURSIVE dumpSegments(_, _)
dumpSegments(header, parts) ==
    IF Len(parts) = 0 THEN <<>>
    ELSE LET record(fields) ==
                 [header |-> header, action |-> "F",
                  recordType |-> detectRecordType(fields), fields |-> fields]
             segment(part) == IF part = "" THEN <<>> ELSE <<record(parseFields(part))>>
         IN  segment(Trim(Head(parts))) \o dumpSegments(header, Tail(parts))

\* header.split("/").pop()
\* the first segment of the path for the item id
lastSegment_first(header) ==
    IF Includes(header, "/")
    THEN LET shift(segs) == segs[1] IN shift(Split(header, "/"))
    ELSE header

lastSegment(header) ==
    IF Includes(header, "/")
    THEN LET pop(segs) == segs[Len(segs)] IN pop(Split(header, "/"))
    ELSE header

\* The part of one iteration of the loop of processMessage that reads only the
\* sub-message: which branch its header selects, and the records or the segment
\* parsed from its parts
decodeSubMessage(parts) ==
    LET header == parts[1]
    IN  IF \/ header = ""
           \/ header = "__time"
           \/ StartsWith(header, "#")
           \/ StartsWithEmptyWord(header)
        THEN [kind |-> "skip"]
        ELSE IF EndsWith(header, "F")
        THEN [kind         |-> "F",
              segments     |-> dumpSegments(header, Tail(parts)),
              isGlobalDump |-> Includes(header, "InPlay")]
        ELSE IF EndsWith(header, "U") \/ EndsWith(header, "D") \/ EndsWith(header, "I")
        THEN LET delta(lastSeg) ==
                     [kind |-> "U",
                      seg  |-> [header     |-> lastSeg,
                                action     |-> IF EndsWith(lastSeg, "D") THEN "D" ELSE "U",
                                recordType |-> "unknown",
                                fields     |-> parseFields(IF Len(parts) >= 2
                                                           THEN Trim(parts[2]) ELSE "")]]
             IN  delta(lastSegment(header))
        ELSE [kind |-> "skip"]

\* splitFrame(raw) with every sub-message decoded
decodeFrame(raw) ==
    LET each(subMessages) == [i \in 1..Len(subMessages) |-> decodeSubMessage(subMessages[i])]
    IN  each(splitFrame(raw))

\* the update pushed in front of the updates collected so far
pushUpdate_front(collected, update) == update \o collected

\* if (update) updates.push(update)
pushUpdate(collected, update) == collected \o update

\* the iteration with a full dump that reports the matches it leaves as events
applySubMessage_dumpEvents(acc, d) ==
    IF d.kind = "F"
    THEN LET report(st) ==
                 [st      |-> st,
                  updates |-> acc.updates \o
                      [i \in 1..Len(st.matches) |->
                          [type |-> "score", eventId |-> st.matches[i].eventId,
                           changes |-> <<>>]]]
         IN  report(processFullDump(acc.st, d.segments, d.isGlobalDump))
    ELSE IF d.kind = "U"
    THEN LET push(r) == [st |-> r.st, updates |-> pushUpdate(acc.updates, r.update)]
         IN  push(processUpdate(acc.st, d.seg))
    ELSE acc

\* The rest of the iteration: the call of processFullDump or processUpdate on the
\* state, and the push onto the updates list.  acc carries both.
applySubMessage(acc, d) ==
    IF d.kind = "F"
    THEN [st      |-> processFullDump(acc.st, d.segments, d.isGlobalDump),
          updates |-> acc.updates]
    ELSE IF d.kind = "U"
    THEN LET push(r) == [st |-> r.st, updates |-> pushUpdate(acc.updates, r.update)]
         IN  push(processUpdate(acc.st, d.seg))
    ELSE acc

RECURSIVE applySubMessages(_, _)
applySubMessages(acc, decoded) ==
    IF Len(decoded) = 0 \/ acc.st.threw THEN acc
    ELSE applySubMessages(applySubMessage(acc, Head(decoded)), Tail(decoded))

\* the loop of processMessage over an already decoded frame
\* A call ends by returning the updates or by the exception a record raised, in
\* which case the caller gets no list; st is the state manager the call leaves.
processDecoded(st, decoded) ==
    LET outcome(acc) ==
            [st      |-> [acc.st EXCEPT !.threw = FALSE],
             updates |-> IF acc.st.threw THEN <<>> ELSE acc.updates,
             threw   |-> acc.st.threw]
    IN  outcome(applySubMessages([st |-> st, updates |-> <<>>], decoded))

\* the merge of the frame-received handler that keeps the changes of the first
\* odds update of an event and drops those of the later ones
RECURSIVE mergeOddsFrom_dropLater(_, _)
mergeOddsFrom_dropLater(rawUpdates, merged) ==
    IF Len(rawUpdates) = 0 THEN merged
    ELSE LET u == Head(rawUpdates)
         IN  IF u.type = "odds"
                /\ \E i \in 1..Len(merged) :
                       merged[i].type = "odds" /\ merged[i].eventId = u.eventId
             THEN mergeOddsFrom_dropLater(Tail(rawUpdates), merged)
             ELSE mergeOddsFrom_dropLater(Tail(rawUpdates), Append(merged, u))

mergeOdds_dropLater(rawUpdates) == mergeOddsFrom_dropLater(rawUpdates, <<>>)

\* The loop of the frame-received handler over rawUpdates.  merged is the list
\* `updates` of the handler; oddsMap.get(eventId) is the odds update of merged
\* with that eventId, the one the loop pushed when it first met the event.
RECURSIVE mergeOddsFrom(_, _)
mergeOddsFrom(rawUpdates, merged) ==
    IF Len(rawUpdates) = 0 THEN merged
    ELSE LET u == Head(rawUpdates)
             existing == {i \in 1..Len(merged) :
                             merged[i].type = "odds" /\ merged[i].eventId = u.eventId}
         IN  IF u.type = "odds" /\ existing # {}
             THEN mergeOddsFrom(Tail(rawUpdates),
                                [merged EXCEPT ![MinOf(existing)].changes = @ \o u.changes])
             ELSE mergeOddsFrom(Tail(rawUpdates), Append(merged, u))

\* the list the handler logs for the list processMessage returned
mergeOdds(rawUpdates) == mergeOddsFrom(rawUpdates, <<>>)

\* processMessage(raw): the state after the call and the list it returns
processMessage(st, raw) == processDecoded(st, decodeFrame(raw))

getAllMatches(st) == st.matches

getLiveMatches(st) == SelectSeq(getAllMatches(st), LAMBDA m : m.status = "in-play")

getMatchesBySport(st, sportId) == SelectSeq(getAllMatches(st), LAMBDA m : m.sportId = sportId)

\* ---------------------------------------------------------------------------
\* Payloads the state manager is driven with
\* ---------------------------------------------------------------------------

\* The scenarios of the protocol capture: the global tennis dump, the game-won
\* delta, the odds delta and the delete
S1 ==
    "OVInPlay_32_0F|CL;CL=13;NA=Tennis;|CT;NA=ATP Santiago;CC=21124106;L3=ATP3-R2;|"
    \o "EV;ID=190321250C13A_32_0;NA=Mariano Navone v Luciano Darderi;OI=190340113;"
    \o "SS=3-6,0-0;XP=40-15;PI=1,0;ES=2;CL=13;|MA;ID=1763;NA=Money Line;SU=0;|"
    \o "PA;ID=701873422;FI=190340113;OD=9/2;OR=0;SU=0;|"
    \o "PA;ID=701873420;FI=190340113;OD=1/7;OR=1;SU=0;|"

S2 == "OV190321250C13A_32_0U|PI=0,1;XP=0-0;SS=3-6,1-0;|"

S3 == "OV190340113-701873422_32_0U|OD=4/1;|"

S4 == "OV190321250C13A_32_0D||"

\* A global dump that opens with an unregistered sport and goes on with a soccer
\* match: a three-way market, a two-way market that reuses selection id 31 in its
\* second position and holds a PA that names a fixture other than the match's, and
\* a market that reuses selection id 32 in a third position
MixedGlobal ==
    "OVInPlay_32_0F|CL;CL=999;NA=Curling;|EV;ID=5C999A_32_0;NA=Cis v Dee;OI=6;|"
    \o "MA;ID=20;|PA;ID=41;FI=6;OD=1/1;|CL;CL=1;NA=Soccer;|CT;NA=Cup;ID=77;|"
    \o "EV;ID=2C1A_32_0;IT=OV2C1A_32_0;NA=Ajax v PSV;OI=8;SS=0-0;ES=0;|"
    \o "MA;ID=10;NA=Result;|PA;ID=31;FI=8;OD=1/1;OR=0;|PA;ID=32;FI=8;OD=2/1;OR=1;|"
    \o "PA;ID=33;FI=8;OD=3/1;OR=2;|MA;ID=11;NA=Next Goal;|PA;ID=31;FI=8;OD=1/1;OR=1;|"
    \o "PA;ID=34;FI=9;OD=7/1;OR=1;|MA;ID=12;NA=Corners;|PA;ID=32;FI=8;OD=2/1;OR=2;|"

\* A detail (non-global) dump of a second tennis match that names the fixture of
\* the first
SharedFixture ==
    "6V3C13A_32_0F|EV;ID=6V3C13A_32_0;CL=13;NA=Ann v Bea;OI=190340113;PI=0,1;|"
    \o "MA;ID=1763;|PA;ID=701873422;FI=190340113;OD=5/1;OR=0;|"

\* A global dump of one tennis match whose EV carries no PI: market 1 is opened,
\* market 2 is opened, market 1 is opened again; the last EV carries an
\* unregistered CL inside the tennis context
ReopenedMarket ==
    "OVInPlay_32_0F|CL;CL=13;NA=Tennis;|EV;ID=4C13A_32_0;NA=Ghi v Jkl;|"
    \o "MA;ID=1;NA=Winner;|PA;ID=51;OD=1/1;OR=0;|MA;ID=2;NA=Sets;|"
    \o "MA;ID=1;NA=Winner;|PA;ID=52;OD=2/1;OR=1;|"
    \o "EV;ID=9C999A_32_0;CL=999;NA=Eel v Fox;|"

\* The unknown-sport scenario: a dump that opens with the CL record of an
\* unregistered sport followed by an EV, under a global and under a detail header
UnknownSportGlobal ==
    "OVInPlay_32_0F|CL;CL=999;NA=Curling;|EV;ID=5C999A_32_0;NA=Cis v Dee;OI=6;|"

UnknownSportDetail ==
    "6V5C999A_32_0F|CL;CL=999;NA=Curling;|EV;ID=6V5C999A_32_0;NA=Cis v Dee;OI=6;|"

\* The S1 dump with records the parser has no use for between its records: an
\* unknown record type, a record without a type, an EV without an event id
\* a global dump whose CL record names a member of Object.prototype
PrototypeSport ==
    "OVInPlay_32_0F|CL;CL=constructor;NA=Object;|EV;ID=5C1A_32_0;NA=Cis v Dee;OI=6;|"

\* A global dump under the CL record of an unregistered sport: an EV that carries
\* CL=13, an EV without CL after it with a market whose selections have odds that
\* are not fractions of two numbers, an EV that carries CL=999, an EV without id
AdoptedContext ==
    "OVInPlay_32_0F|CL;CL=999;NA=Curling;|EV;ID=3C13A_32_0;NA=Gil v Hal;CL=13;|"
    \o "EV;ID=4C13A_32_0;NA=Ian v Jon;|MA;ID=1;NA=Winner;|PA;ID=61;OD=evens/2;|"
    \o "PA;ID=62;OD=5/0;OR=1;|PA;ID=63;OD=SP;OR=2;|PA;ID=64;OR=3;|"
    \o "EV;ID=6C999A_32_0;NA=Kim v Lee;CL=999;|"
    \o "EV;ID=;NA=No v Id;CL=13;|"

S1Junk ==
    "OVInPlay_32_0F|CL;CL=13;NA=Tennis;|ZZ;X=1;|"
    \o "CT;NA=ATP Santiago;CC=21124106;L3=ATP3-R2;|=;;|"
    \o "EV;ID=190321250C13A_32_0;NA=Mariano Navone v Luciano Darderi;OI=190340113;"
    \o "SS=3-6,0-0;XP=40-15;PI=1,0;ES=2;CL=13;|EV;ID=nil;NA=Nobody;|"
    \o "MA;ID=1763;NA=Money Line;SU=0;|SS=9-9;|"
    \o "PA;ID=701873422;FI=190340113;OD=9/2;OR=0;SU=0;|"
    \o "PA;ID=701873420;FI=190340113;OD=1/7;OR=1;SU=0;|"

\* A detail dump whose MA and PA records come before any EV record: first before
\* any CL record, then under the CL record of tennis; it ends on the CL record of
\* an unregistered sport
StrayRecords ==
    "6V9C13A_32_0F|MA;ID=90;NA=Stray;|PA;ID=91;FI=190340113;OD=1/1;|"
    \o "CL;CL=13;NA=Tennis;|MA;ID=92;NA=Stray;|PA;ID=93;FI=190340113;OD=1/1;|"
    \o "CL;CL=999;NA=Curling;|"

Dumps ==
    {S1, MixedGlobal, SharedFixture, ReopenedMarket, UnknownSportGlobal, UnknownSportDetail,
     S1Junk, PrototypeSport, AdoptedContext, StrayRecords}

\* Event-scoped deltas: score changes, a delete that carries fields, a header whose
\* category is not the sport of the match, an unregistered category
EventDeltas ==
    {S2, S4,
     "OV2C1A_32_0U|SS=1-0;TU=20260225;ES=;|",
     "OV2C1A_32_0D|SS=2-0;ES=;|",
     "OV2C13A_32_0U|SS=1-0;PI=0,1;XP=15-0;|",
     "OV2C999A_32_0D|"}

\* Selection-scoped deltas: one hit, a selection id held by two markets, a leading
\* zero, a fixture that is not registered, a selection id no market holds; and a
\* delta under a market id
SelectionDeltas ==
    {S3,
     "OV8-31_32_0U|OD=6/4;|",
     "OV8-032_32_0U|OD=5/2;SU=1;|",
     "OV77-31_32_0U|OD=1/1;|",
     "OV8-99_32_0U|OD=1/1;|",
     "OV2C1-10_32_0U|SU=1;|"}

\* Framing: heartbeat, subscription, ack, two sub-messages between control bytes,
\* a hierarchical header, an insert suffix
\* two sub-messages between control bytes: the S2 delta, the S3 delta
ScoreThenOdds ==
    NAK \o "OV190321250C13A_32_0" \o SOH \o "U|PI=0,1;XP=0-0;SS=3-6,1-0;|" \o BS
        \o NAK \o "OV190340113-701873422_32_0" \o SOH \o "U|OD=4/1;|"

\* three sub-messages between control bytes: the S2 delta, the S4 delete, the S2
\* delta again
ScoreDeleteScore ==
    NAK \o "OV190321250C13A_32_0" \o SOH \o "U|PI=0,1;XP=0-0;SS=3-6,1-0;|" \o BS
        \o NAK \o "OV190321250C13A_32_0" \o SOH \o "D||" \o BS
        \o NAK \o "OV190321250C13A_32_0" \o SOH \o "U|PI=0,1;XP=0-0;SS=3-6,1-0;|"

\* Two payloads framed with control bytes, one sub-message each.  The third part
\* of the first is shaped like a topic header.
FramedGame ==
    NAK \o "OV190321250C13A_32_0" \o SOH \o "U|XP=15-0;|OV190321250C13A_32_0D|"

FramedOdds == NAK \o "OV190340113-701873422_32_0" \o SOH \o "U|OD=4/1;|"

\* three sub-messages between control bytes: an odds delta, the S4 delete, an
\* odds delta of the same selection
OddsDeleteOdds ==
    NAK \o "OV190340113-701873422_32_0" \o SOH \o "U|OD=4/1;|" \o BS
        \o NAK \o "OV190321250C13A_32_0" \o SOH \o "D||" \o BS
        \o NAK \o "OV190340113-701873422_32_0" \o SOH \o "U|OD=5/1;|"

\* a delete of event 2 under a hierarchical header
PathDelete == "OVInPlay_32_0/OV2C1A_32_0D|"

\* an event delta under the insert suffix
InsertDelta == "OV2C1A_32_0I|SS=4-4;|"

Framing ==
    {"__time|", "#P__time,S_x|", "EMPTYU|",
     ScoreThenOdds,
     PathDelete,
     FramedGame,
     InsertDelta,
     ScoreDeleteScore,
     OddsDeleteOdds}

Payloads == Dumps \cup EventDeltas \cup SelectionDeltas \cup Framing

\* every payload decoded once
Decoded == [p \in Payloads |-> decodeFrame(p)]

\* ---------------------------------------------------------------------------
\* The state machine
\* ---------------------------------------------------------------------------

VARIABLES
    matches,                \* StateManager.matches, in insertion order
    fixtureToEvent,         \* StateManager.fixtureToEvent
    selectionInfo,          \* StateManager.selectionInfo
    itemToEvent,            \* StateManager.itemToEvent
    currentTournament,      \* parse context of the last full dump
    currentTournamentCode,
    currentCategory,
    currentSportId,
    inSupportedSport,
    lastEventId,
    updates,                \* the list the last processMessage call returned
    threw,                  \* whether the last processMessage call raised an exception
    lastRaw,                \* the payload of the last processMessage call
    before                  \* the state manager as it was before that call

vars == <<matches, fixtureToEvent, selectionInfo, itemToEvent, currentTournament,
          currentTournamentCode, currentCategory, currentSportId, inSupportedSport,
          lastEventId, updates, threw, lastRaw, before>>

\* the fields of the state manager as one value
World ==
    [matches               |-> matches,
     fixtureToEvent        |-> fixtureToEvent,
     selectionInfo         |-> selectionInfo,
     itemToEvent           |-> itemToEvent,
     currentTournament     |-> currentTournament,
     currentTournamentCode |-> currentTournamentCode,
     currentCategory       |-> currentCategory,
     currentSportId        |-> currentSportId,
     inSupportedSport      |-> inSupportedSport,
     lastEventId           |-> lastEventId,
     threw                 |-> FALSE]

Init ==
    /\ matches = EmptyState.matches
    /\ fixtureToEvent = EmptyState.fixtureToEvent
    /\ selectionInfo = EmptyState.selectionInfo
    /\ itemToEvent = EmptyState.itemToEvent
    /\ currentTournament = EmptyState.currentTournament
    /\ currentTournamentCode = EmptyState.currentTournamentCode
    /\ currentCategory = EmptyState.currentCategory
    /\ currentSportId = EmptyState.currentSportId
    /\ inSupportedSport = EmptyState.inSupportedSport
    /\ lastEventId = EmptyState.lastEventId
    /\ updates = <<>>
    /\ threw = FALSE
    /\ lastRaw = ""
    /\ before = EmptyState

\* one call of processMessage(p)
ProcessMessage(p) ==
    \E r \in {processDecoded(World, Decoded[p])} :
        /\ matches' = r.st.matches
        /\ fixtureToEvent' = r.st.fixtureToEvent
        /\ selectionInfo' = r.st.selectionInfo
        /\ itemToEvent' = r.st.itemToEvent
        /\ currentTournament' = r.st.currentTournament
        /\ currentTournamentCode' = r.st.currentTournamentCode
        /\ currentCategory' = r.st.currentCategory
        /\ currentSportId' = r.st.currentSportId
        /\ inSupportedSport' = r.st.inSupportedSport
        /\ lastEventId' = r.st.lastEventId
        /\ updates' = r.updates
        /\ threw' = r.threw
        /\ lastRaw' = p
        /\ before' = World

Next == \E p \in Payloads : ProcessMessage(p)

Spec == Init /\ [][Next]_vars

\* ---------------------------------------------------------------------------
\* Notions the properties are stated with
\* ---------------------------------------------------------------------------

MatchIds(ms) == {ms[i].eventId : i \in 1..Len(ms)}

\* the match of the table ms with this event id
MatchOf(ms, eventId) == ms[matchIndex(ms, eventId)]

\* the last call processed exactly one sub-message
OneSubMessage == lastRaw \in Payloads /\ Len(Decoded[lastRaw]) = 1

\* the decoded sub-message of the last call, when there was exactly one
LastSub == Decoded[lastRaw][1]

\* the state the manager is in after the S1 dump (a global dump: the same from
\* every prior state)
AfterS1 == processDecoded(EmptyState, Decoded[S1]).st

\* ---------------------------------------------------------------------------
\* Properties
\* ---------------------------------------------------------------------------

\* C1: every match of the match table has an empty fixtureId or is the match the
\* reverse index fixtureToEvent gives for its fixtureId.
C1_FixtureReachable ==
    \A i \in 1..Len(matches) :
        \/ matches[i].fixtureId = ""
        \/ /\ matches[i].fixtureId \in DOMAIN fixtureToEvent
           /\ fixtureToEvent[matches[i].fixtureId] = matches[i].eventId

\* C2: a match has serving = 0 exactly when the sport of the match (its sportId in
\* the registry) has no serving indicator.
C2_ServingIffNoIndicator ==
    \A i \in 1..Len(matches) :
        (matches[i].serving = 0) <=> ~SPORT_REGISTRY[matches[i].sportId].hasServing

\* C3: the sets list of a match is non-empty only if the sport of the match uses
\* set scoring.
C3_SetsOnlyForSetScoring ==
    \A i \in 1..Len(matches) :
        matches[i].sets # <<>> => SPORT_REGISTRY[matches[i].sportId].usesSetScoring

\* C4: for every selection stored in a market of a match and recorded in
\* selectionInfo, the recorded fixtureId is the fixtureId of that match.
C4_SelectionInfoFixture ==
    \A i \in 1..Len(matches) :
        \A j \in 1..Len(matches[i].markets) :
            \A k \in 1..Len(matches[i].markets[j].selections) :
                LET id == matches[i].markets[j].selections[k].id
                IN  id \in DOMAIN selectionInfo
                        => selectionInfo[id].fixtureId = matches[i].fixtureId

\* the two payloads framed with control bytes, one sub-message each
ConcatPayloads == {FramedGame, FramedOdds}

\* C5: from every state, processing the concatenation of two payloads leaves the
\* state manager (match table and reverse indexes) as processing the first and then
\* the second in two calls does.
C5_ConcatenationEquivalence ==
    \A a \in ConcatPayloads, b \in ConcatPayloads :
        LET apart    == processMessage(processMessage(World, a).st, b).st
            together == processMessage(World, a \o b).st
        IN  /\ apart.matches = together.matches
            /\ apart.fixtureToEvent = together.fixtureToEvent
            /\ apart.selectionInfo = together.selectionInfo
            /\ apart.itemToEvent = together.itemToEvent

\* the payloads that are one full-dump sub-message under a header with "InPlay"
GlobalDumps ==
    {p \in Payloads : /\ Len(Decoded[p]) = 1
                      /\ Decoded[p][1].kind = "F"
                      /\ Decoded[p][1].isGlobalDump}

\* The events present in a dump: the event ids read from the ID of the EV records
\* whose sport is registered, the sport of an EV record being its own CL field
\* or, without one, the CL of the nearest preceding CL record.
RECURSIVE EventsPresent(_, _)
EventsPresent(segments, sport) ==
    IF Len(segments) = 0 THEN {}
    ELSE LET f  == Head(segments).fields
             rt == Head(segments).recordType
             own == IF Fld(f, "CL") # "" THEN f["CL"] ELSE sport
         IN  IF rt = "CL" THEN EventsPresent(Tail(segments), Fld(f, "CL"))
             ELSE IF rt = "EV"
             THEN (IF Supported(own) /\ extractEventId(Fld(f, "ID")) # ""
                   THEN {extractEventId(Fld(f, "ID"))} ELSE {})
                      \cup EventsPresent(Tail(segments), IF Supported(own) THEN own ELSE sport)
             ELSE EventsPresent(Tail(segments), sport)

\* C6: after a global full dump the state manager is what the same dump makes of
\* an empty one: the match table holds exactly the events present in the dump, and
\* no match and no entry of fixtureToEvent, selectionInfo or itemToEvent from before
\* the dump is left.
C6_GlobalDumpResets ==
    lastRaw \in GlobalDumps =>
        /\ World = processDecoded(EmptyState, Decoded[lastRaw]).st
        /\ MatchIds(matches) = EventsPresent(LastSub.segments, "")
        /\ DOMAIN fixtureToEvent = {matches[i].fixtureId : i \in 1..Len(matches)} \ {""}
        /\ \A k \in DOMAIN itemToEvent : itemToEvent[k] \in MatchIds(matches)

\* C6 witness: a global dump was processed on a state that held a match and index
\* entries the dump does not contain.
C6_Witness ==
    /\ lastRaw \in GlobalDumps
    /\ MatchIds(before.matches) \ MatchIds(matches) # {}
    /\ DOMAIN before.fixtureToEvent \ DOMAIN fixtureToEvent # {}
    /\ DOMAIN before.selectionInfo \ DOMAIN selectionInfo # {}
    /\ DOMAIN before.itemToEvent \ DOMAIN itemToEvent # {}
    /\ matches # <<>>

\* the item ids of a match: (OV|6V)<eventId>C<sportId>A with the optional platform
\* suffix
ItemIdsOf(m) ==
    {pre \o m.eventId \o "C" \o m.sportId \o "A" \o suf :
        pre \in {"OV", "6V"}, suf \in {"", "_32", "_32_0"}}

\* the last call was one D delta under the item id of a match registered before it
DeleteOfRegistered ==
    /\ OneSubMessage
    /\ LastSub.kind = "U"
    /\ LastSub.seg.action = "D"
    /\ \E i \in 1..Len(before.matches) :
           stripAction(LastSub.seg.header) \in ItemIdsOf(before.matches[i])

\* the match a delete of a registered match names
DeletedMatch ==
    CHOOSE m \in {before.matches[i] : i \in 1..Len(before.matches)} :
        stripAction(LastSub.seg.header) \in ItemIdsOf(m)

\* C7: a D delta under the item id of a registered match removes that match and
\* no other, and returns exactly one event, of type delete, with the event id of
\* the match and changes = <<"deleted">>, whatever fields it carries.
C7_DeleteRemovesMatch ==
    DeleteOfRegistered =>
        /\ Len(updates) = 1
        /\ updates[1].type = "delete"
        /\ updates[1].eventId = DeletedMatch.eventId
        /\ updates[1].changes = <<"deleted">>
        /\ DeletedMatch.eventId \notin MatchIds(matches)
        /\ matches = SelectSeq(before.matches, LAMBDA m : m.eventId # DeletedMatch.eventId)

\* C7 witness: a registered match was deleted by a D delta that carries a score
\* different from the stored one.
C7_Witness ==
    /\ DeleteOfRegistered
    /\ Has(LastSub.seg.fields, "SS")
    /\ LastSub.seg.fields["SS"] # DeletedMatch.scoreRaw
    /\ Len(updates) = 1
    /\ updates[1].type = "delete"

\* the last call was one U delta under a selection id whose fixture resolved to a
\* match registered before it
SelectionDeltaResolved ==
    /\ OneSubMessage
    /\ LastSub.kind = "U"
    /\ LastSub.seg.action = "U"
    /\ parseItemId(stripAction(LastSub.seg.header)).type = "selection"
    /\ parseItemId(stripAction(LastSub.seg.header)).fixtureId \in DOMAIN before.fixtureToEvent
    /\ before.fixtureToEvent[parseItemId(stripAction(LastSub.seg.header)).fixtureId]
           \in MatchIds(before.matches)

\* the match such a delta resolved to
ResolvedMatch ==
    MatchOf(before.matches,
            before.fixtureToEvent[parseItemId(stripAction(LastSub.seg.header)).fixtureId])

\* the selections of that match the delta hits and whose odds it changes, as
\* (market position, selection position) pairs
OddsHits ==
    {ij \in (1..Len(ResolvedMatch.markets)) \X (1..4) :
        /\ ij[2] <= Len(ResolvedMatch.markets[ij[1]].selections)
        /\ ResolvedMatch.markets[ij[1]].selections[ij[2]].id
               = parseItemId(stripAction(LastSub.seg.header)).selectionId
        /\ Has(LastSub.seg.fields, "OD")
        /\ LastSub.seg.fields["OD"] # ResolvedMatch.markets[ij[1]].selections[ij[2]].odds}

\* C8 as stated: a selection delta returns one odds event per selection hit whose
\* odds change.
C8_OneEventPerHit ==
    SelectionDeltaResolved =>
        /\ Len(updates) = Cardinality(OddsHits)
        /\ \A i \in 1..Len(updates) : updates[i].type = "odds"

\* C8 amended: a selection delta that changes the odds of k >= 1 selections of the
\* resolved match returns exactly one odds event, for that match, whose changes
\* list holds k strings, one per selection hit; with k = 0 it returns nothing.
C8_OneEventPerDelta ==
    SelectionDeltaResolved =>
        IF Cardinality(OddsHits) = 0 THEN updates = <<>>
        ELSE /\ Len(updates) = 1
             /\ updates[1].type = "odds"
             /\ updates[1].eventId = ResolvedMatch.eventId
             /\ Len(updates[1].changes) = Cardinality(OddsHits)

\* C8 witness: the selection id of the delta is held by two markets of the match
\* and both selections changed odds.
C8_Witness ==
    /\ SelectionDeltaResolved
    /\ Cardinality(OddsHits) = 2
    /\ Len(updates) = 1
    /\ Len(updates[1].changes) = 2

\* C9: the S1 dump yields exactly one match: event 190321250, Mariano Navone
\* against Luciano Darderi, tennis, sets (3,6),(0,0), game 40-15, player 2 serving
\* (PI = 1,0), in play, with the one market 1763 holding the selections 701873422
\* at 9/2 and 701873420 at 1/7 in this order.
C9_FullDumpScenario ==
    lastRaw = S1 =>
        /\ Len(matches) = 1
        /\ matches[1].eventId = "190321250"
        /\ matches[1].team1 = "Mariano Navone"
        /\ matches[1].team2 = "Luciano Darderi"
        /\ matches[1].sportId = "13"
        /\ matches[1].sportName = "Tennis"
        /\ matches[1].sets = <<<<3, 6>>, <<0, 0>>>>
        /\ matches[1].currentGame = [p1 |-> "40", p2 |-> "15"]
        /\ matches[1].serving = 2
        /\ matches[1].status = "in-play"
        /\ Len(matches[1].markets) = 1
        /\ matches[1].markets[1].id = "1763"
        /\ Len(matches[1].markets[1].selections) = 2
        /\ matches[1].markets[1].selections[1].id = "701873422"
        /\ matches[1].markets[1].selections[1].odds = "9/2"
        /\ matches[1].markets[1].selections[2].id = "701873420"
        /\ matches[1].markets[1].selections[2].odds = "1/7"

\* the members of a list of strings
Members(list) == {list[i] : i \in 1..Len(list)}

\* C10: the game-won delta S2 processed right after the S1 dump returns exactly one
\* score event for event 190321250 whose changes contain "sets: 3-6,1-0",
\* "game: 0-0" and "serving: P1", and leaves the match with sets (3,6),(1,0), game
\* 0-0 and player 1 serving.
C10_GameWonScenario ==
    (lastRaw = S2 /\ before = AfterS1) =>
        /\ Len(updates) = 1
        /\ updates[1].type = "score"
        /\ updates[1].eventId = "190321250"
        /\ {"sets: 3-6,1-0", "game: 0-0", "serving: P1"} \subseteq Members(updates[1].changes)
        /\ Len(matches) = 1
        /\ matches[1].sets = <<<<3, 6>>, <<1, 0>>>>
        /\ matches[1].currentGame = [p1 |-> "0", p2 |-> "0"]
        /\ matches[1].serving = 1

\* the item id the one delta of the last call was sent under
LastItem == parseItemId(stripAction(LastSub.seg.header))

\* the last call was one full-dump sub-message
OneDump == OneSubMessage /\ LastSub.kind = "F"

\* the last call was one U or D delta under an event id registered before it,
\* with a registered category in its header
EventDeltaResolved ==
    /\ OneSubMessage
    /\ LastSub.kind = "U"
    /\ LastItem.type = "event"
    /\ Supported(LastItem.categoryId)
    /\ LastItem.eventId \in MatchIds(before.matches)

\* the text of pi before its first comma
FirstItem(pi) == IF IndexOf(pi, ",") = 0 THEN pi ELSE Sub(pi, 1, IndexOf(pi, ",") - 1)

\* the serving side the rule gives for a PI text
ServingOf(pi) == IF pi = "" THEN 1 ELSE IF FirstItem(pi) = "1" THEN 1 ELSE 2

ServingInputs == {"", "1", "0", "1,0", "0,1", "0,0", "1,1", "10,0", "11", ",1", "2,1", " 1,0", "01,0"}

LabelOf(match, market, sel) ==
    CASE sel.position = 0 -> match.team1
      [] sel.position = 1 /\ Len(market.selections) >= 3 -> "Draw"
      [] OTHER -> match.team2

\* the change strings the rule gives for the selections a delta hits
ExpectedOddsChanges ==
    {LabelOf(ResolvedMatch, ResolvedMatch.markets[ij[1]],
             ResolvedMatch.markets[ij[1]].selections[ij[2]])
         \o ": " \o ResolvedMatch.markets[ij[1]].selections[ij[2]].odds
         \o " → " \o LastSub.seg.fields["OD"] : ij \in OddsHits}

\* C12: the change string of a selection whose odds a selection delta changes is
\* "<label>: <old odds> → <new odds>", the label being team1 of the match for
\* position 0, "Draw" for position 1 in a market of at least 3 selections and team2
\* otherwise; after S1 the delta S3 returns one odds event with the changes
\* <<"Mariano Navone: 9/2 → 4/1">>.
C12_OddsChangeLabel ==
    /\ (SelectionDeltaResolved /\ OddsHits # {})
           => /\ Len(updates) = 1
              /\ Members(updates[1].changes) = ExpectedOddsChanges
    /\ (lastRaw = S3 /\ before = AfterS1)
           => updates = <<[type |-> "odds", eventId |-> "190321250",
                           changes |-> <<"Mariano Navone: 9/2 → 4/1">>]>>

\* C12 witness: one delta changed the odds of a selection in position 1 of a
\* three-way market and of a selection in position 2, and was reported with the
\* labels "Draw" and team2.
C12_Witness ==
    /\ SelectionDeltaResolved
    /\ Len(updates) = 1
    /\ updates[1].changes = <<"Draw: 2/1 → 5/2", "PSV: 2/1 → 5/2">>

\* every sub-message of a decoded payload is a full dump, and there is one at least
OnlyDumps(decoded) == Len(decoded) > 0 /\ \A i \in 1..Len(decoded) : decoded[i].kind = "F"

\* two payloads of two full dumps each between control bytes: a global dump and a
\* detail dump, in both orders
DumpTrains ==
    {NAK \o S1 \o BS \o NAK \o SharedFixture,
     NAK \o SharedFixture \o BS \o NAK \o MixedGlobal}

DecodedDumpTrains == [p \in DumpTrains |-> decodeFrame(p)]

\* C13: a payload made of full-dump sub-messages only returns the empty list,
\* from every state and whatever the dumps change.
C13_DumpsEmitNothing ==
    /\ (lastRaw \in Payloads /\ OnlyDumps(Decoded[lastRaw])) => updates = <<>>
    /\ \A p \in DumpTrains :
           /\ Len(DecodedDumpTrains[p]) = 2
           /\ OnlyDumps(DecodedDumpTrains[p])
           /\ processDecoded(World, DecodedDumpTrains[p]).updates = <<>>

\* C13 witness: a full dump replaced the match table of a state that held another
\* match, and the call returned nothing.
C13_Witness ==
    /\ lastRaw \in Payloads
    /\ OnlyDumps(Decoded[lastRaw])
    /\ before.matches # <<>>
    /\ matches # <<>>
    /\ MatchIds(matches) # MatchIds(before.matches)
    /\ updates = <<>>

\* the events of the sub-messages of a decoded payload, each sub-message processed
\* by a call of its own on the state the calls before it left
RECURSIVE InWireOrder(_, _)
InWireOrder(st, decoded) ==
    IF Len(decoded) = 0 THEN <<>>
    ELSE LET rest(r) == r.updates \o InWireOrder(r.st, Tail(decoded))
         IN  rest(processDecoded(st, <<Head(decoded)>>))

\* C14: the list a call returns holds the events of its sub-messages in wire
\* order, and the event of a sub-message is the one it emits on the state left by
\* the sub-messages before it: after S1, the S2 delta followed by the S3 delta
\* returns the score event and then the odds event, and S2, the S4 delete and S2
\* again return the score event and the delete and nothing for the third.
C14_EventsInWireOrder ==
    /\ lastRaw \in Payloads => updates = InWireOrder(before, Decoded[lastRaw])
    /\ (lastRaw = ScoreThenOdds /\ before = AfterS1)
           => /\ Len(updates) = 2
              /\ updates[1].type = "score"
              /\ updates[2].type = "odds"
    /\ (lastRaw = ScoreDeleteScore /\ before = AfterS1)
           => /\ Len(updates) = 2
              /\ updates[1].type = "score"
              /\ updates[2].type = "delete"
              /\ matches = <<>>

\* C14 witness: a call of three sub-messages returned two events, the score event
\* of the first and the delete of the second.
C14_Witness ==
    /\ lastRaw = ScoreDeleteScore
    /\ Len(Decoded[lastRaw]) = 3
    /\ Len(updates) = 2
    /\ updates[1].type = "score"
    /\ updates[2].type = "delete"

\* the dumps that consist of the CL record of an unregistered sport and an EV
UnknownSportDumps == {UnknownSportGlobal, UnknownSportDetail}

\* C15 as stated: a full dump that opens with the CL record of an unregistered
\* sport followed by an EV leaves the match table as it was before the call.
C15_UnknownSportUnchanged ==
    lastRaw \in UnknownSportDumps => getAllMatches(World) = getAllMatches(before)

\* C15 amended: such a dump adds no match and changes none.  Under a detail header
\* the match table and the reverse indexes are what they were before the call;
\* under a global header the match table and the reverse indexes are empty after
\* it, as after every global dump.
C15_UnknownSportDropped ==
    /\ lastRaw \in UnknownSportDumps
           => /\ OneDump
              /\ LastSub.segments[1].recordType = "CL"
              /\ ~Supported(LastSub.segments[1].fields["CL"])
              /\ LastSub.segments[2].recordType = "EV"
              /\ MatchIds(matches) \subseteq MatchIds(before.matches)
              /\ \A i \in 1..Len(matches) :
                     \E j \in 1..Len(before.matches) : matches[i] = before.matches[j]
    /\ lastRaw = UnknownSportDetail
           => /\ ~LastSub.isGlobalDump
              /\ getAllMatches(World) = getAllMatches(before)
              /\ fixtureToEvent = before.fixtureToEvent
              /\ selectionInfo = before.selectionInfo
              /\ itemToEvent = before.itemToEvent
    /\ lastRaw = UnknownSportGlobal
           => /\ LastSub.isGlobalDump
              /\ getAllMatches(World) = <<>>
              /\ fixtureToEvent = EmptyMap
              /\ selectionInfo = EmptyMap
              /\ itemToEvent = EmptyMap

\* C15 witness: the detail dump of the unregistered sport was processed on a state
\* that held a match, and the match table is the one from before the call.
C15_Witness ==
    /\ lastRaw = UnknownSportDetail
    /\ before.matches # <<>>
    /\ getAllMatches(World) = getAllMatches(before)
    /\ currentSportId = "999"
    /\ ~inSupportedSport

\* a payload with the control bytes 0x00, 0x01, 0x08, 0x14, 0x15 removed
RECURSIVE StripControl(_)
StripControl(raw) ==
    IF raw = "" THEN ""
    ELSE IF Len(raw) = 1
    THEN (IF raw \in {NUL, SOH, BS, DC4, NAK} THEN "" ELSE raw)
    ELSE LET half == Len(raw) \div 2
         IN  StripControl(Sub(raw, 1, half)) \o StripControl(Slice(raw, half + 1))

\* two sub-messages, each started by 0x15, with 0x08 between them
TwoFramed(a, b) == NAK \o a \o BS \o NAK \o b

\* the parts of a sub-message that are not empty
NonEmptyParts(parts) == SelectSeq(parts, LAMBDA x : x # "")

\* Pairs of sub-messages whose header is a topic header and whose other parts are
\* not are made of the S1 dump, the S2 score delta, the S3 odds delta and the S4
\* delete.  Two more pairs: one where the header of the second sub-message has no
\* "_32_0" suffix, one where a data part of the first is shaped like a header
BareHeaderPair == TwoFramed(S3, "OV190321250C13AU|PI=0,1;XP=0-0;SS=3-6,1-0;|")
HeaderShapedPartPair == TwoFramed("OV190321250C13A_32_0U|XP=15-0;|OV190321250C13A_32_0D|", S3)

\* the scenario's dump followed by a delta, a delta followed by a dump, and the
\* deltas and the delete two by two
RegularPairs ==
    {TwoFramed(S1, S2), TwoFramed(S3, S1), TwoFramed(S2, S4), TwoFramed(S4, S3),
     TwoFramed(S3, S3), ScoreThenOdds}

AllPairs == RegularPairs \cup {BareHeaderPair, HeaderShapedPartPair}

\* each pair split and decoded with its control bytes and without them
PairFrames ==
    [p \in AllPairs |->
        [framedSplit |-> splitFrame(p),
         cleanSplit  |-> splitFrame(StripControl(p)),
         chunks      |-> Len(cleanAndSplit(p)),
         cleanChunks |-> Len(cleanAndSplit(StripControl(p))),
         framed      |-> decodeFrame(p),
         clean       |-> decodeFrame(StripControl(p))]]

\* the two ways of processing a pair agree on the state and on the events
SameBehaviour(st, p) ==
    processDecoded(st, PairFrames[p].framed) = processDecoded(st, PairFrames[p].clean)

\* the sub-messages of a frame processed one call after the other
Independently(st, decoded) ==
    LET second(r1) ==
            LET join(r2) == [st |-> r2.st, updates |-> r1.updates \o r2.updates,
                             threw |-> FALSE]
            IN  join(processDecoded(r1.st, <<decoded[2]>>))
    IN  second(processDecoded(st, <<decoded[1]>>))

\* C16 as stated: every payload of two sub-messages delimited by 0x15 with 0x08
\* between them gives, from every state, the same final state and the same events
\* as the payload with the control bytes removed.
C16_FallbackEquivalence ==
    \A p \in AllPairs : SameBehaviour(World, p)

\* C16 amended: when the header of each of the two sub-messages is a topic header
\* once the control bytes are removed, and no other part is one, the payload is
\* split at the control bytes into exactly two sub-messages that are processed one
\* after the other; the payload without the control bytes is one piece, split by
\* the pipe fallback into two sub-messages with the same headers and the same
\* non-empty parts; and both give the same final state and the same events.
C16_FallbackEquivalenceForTopicHeaders ==
    /\ \A p \in RegularPairs :
           /\ PairFrames[p].chunks = 2
           /\ Len(PairFrames[p].framedSplit) = 2
           /\ PairFrames[p].cleanChunks = 1
           /\ Len(PairFrames[p].cleanSplit) = 2
           /\ \A i \in 1..2 :
                  /\ isTopicHeader(PairFrames[p].cleanSplit[i][1])
                  /\ NonEmptyParts(PairFrames[p].framedSplit[i])
                         = NonEmptyParts(PairFrames[p].cleanSplit[i])
                  /\ \A k \in 2..Len(PairFrames[p].cleanSplit[i]) :
                         ~isTopicHeader(PairFrames[p].cleanSplit[i][k])
           /\ LET agree(r) == /\ r = processDecoded(World, PairFrames[p].clean)
                               /\ r = Independently(World, PairFrames[p].framed)
              IN  agree(processDecoded(World, PairFrames[p].framed))
    /\ lastRaw = ScoreThenOdds
           => /\ World = processDecoded(before, PairFrames[ScoreThenOdds].clean).st
              /\ updates = processDecoded(before, PairFrames[ScoreThenOdds].clean).updates

\* C16 witness: the payload with the S2 and S3 deltas between control bytes was
\* processed on a state where both apply, and the payload without the control
\* bytes makes the same two events of the state before.
C16_Witness ==
    /\ lastRaw = ScoreThenOdds
    /\ Len(updates) = 2
    /\ updates[1].type = "score"
    /\ updates[2].type = "odds"
    /\ World # before
    /\ updates = processDecoded(before, PairFrames[ScoreThenOdds].clean).updates

\* C17: no call of process ends in an exception, and the junk records of S1Junk
\* (a record of unknown type, a record without type, an EV without event id, a
\* field outside a record) do not keep the records after them from being applied:
\* the call leaves what the S1 dump without them leaves.
C17_NoErrorOutcome ==
    /\ ~threw
    /\ lastRaw = S1Junk => /\ getAllMatches(World) = getAllMatches(AfterS1)
                           /\ fixtureToEvent = AfterS1.fixtureToEvent
                           /\ selectionInfo = AfterS1.selectionInfo
                           /\ itemToEvent = AfterS1.itemToEvent

\* the header of a payload: its text up to the first pipe, control bytes aside
FirstHeader == [p \in Payloads |-> splitFrame(p)[1][1]]

\* the item id in the header of the payloads that are one U/D/I sub-message
HeaderItem ==
    [p \in {q \in Payloads : Len(Decoded[q]) = 1 /\ Decoded[q][1].kind = "U"} |->
        parseItemId(stripAction(Decoded[p][1].seg.header))]

\* the selections of a match, over all its markets, that have the given id
SelectionsWithId(match, selectionId) ==
    {ij \in (1..Len(match.markets)) \X (1..4) :
        /\ ij[2] <= Len(match.markets[ij[1]].selections)
        /\ match.markets[ij[1]].selections[ij[2]].id = selectionId}

\* heartbeat, subscription and EMPTY headers
IgnoredHeader ==
    /\ OneSubMessage
    /\ \/ FirstHeader[lastRaw] = "__time"
       \/ StartsWith(FirstHeader[lastRaw], "#")
       \/ StartsWith(FirstHeader[lastRaw], "EMPTY")

\* a U/D delta whose header parses as market or unknown
IgnoredItemType ==
    /\ lastRaw \in DOMAIN HeaderItem
    /\ HeaderItem[lastRaw].type \in {"market", "unknown"}

\* an event delta whose eventId was not registered before the call
IgnoredEvent ==
    /\ lastRaw \in DOMAIN HeaderItem
    /\ HeaderItem[lastRaw].type = "event"
    /\ HeaderItem[lastRaw].eventId \notin MatchIds(before.matches)

\* a selection delta whose fixtureId was not registered before the call
IgnoredFixture ==
    /\ lastRaw \in DOMAIN HeaderItem
    /\ HeaderItem[lastRaw].type = "selection"
    /\ HeaderItem[lastRaw].fixtureId \notin DOMAIN before.fixtureToEvent

\* a selection delta whose fixture resolves to a match none of whose selections
\* has the selectionId of the header
IgnoredSelection ==
    /\ lastRaw \in DOMAIN HeaderItem
    /\ HeaderItem[lastRaw].type = "selection"
    /\ HeaderItem[lastRaw].fixtureId \in DOMAIN before.fixtureToEvent
    /\ before.fixtureToEvent[HeaderItem[lastRaw].fixtureId] \in MatchIds(before.matches)
    /\ SelectionsWithId(MatchOf(before.matches,
                                before.fixtureToEvent[HeaderItem[lastRaw].fixtureId]),
                        HeaderItem[lastRaw].selectionId) = {}

\* C18: a sub-message that is to be ignored (heartbeat, subscription or EMPTY
\* header; a U/D delta under a market or unknown item id; an event delta whose
\* eventId is not registered; a selection delta whose fixtureId is not registered;
\* a selection delta that matches no selection) leaves the match table, the three
\* reverse indexes and the parse context as they were and emits no event.
C18_IgnoredLeavesState ==
    (IgnoredHeader \/ IgnoredItemType \/ IgnoredEvent \/ IgnoredFixture \/ IgnoredSelection)
        => /\ World = before
           /\ updates = <<>>
           /\ ~threw

\* C18 witness: a selection delta was processed whose fixture resolves to a match
\* with markets, none of which holds the selection, and nothing changed.
C18_Witness ==
    /\ IgnoredSelection
    /\ MatchOf(before.matches,
               before.fixtureToEvent[HeaderItem[lastRaw].fixtureId]).markets # <<>>
    /\ World = before
    /\ updates = <<>>

\* The EV records of a dump that the claim as stated has create a match: those
\* with an extractable event id that follow a CL record naming a registered sport
\* or carry a CL field naming one.  clSport is the CL of the most recent CL record.
RECURSIVE ClaimedEvents(_, _)
ClaimedEvents(segments, clSport) ==
    IF Len(segments) = 0 THEN {}
    ELSE LET f  == Head(segments).fields
             rt == Head(segments).recordType
         IN  IF rt = "CL" THEN ClaimedEvents(Tail(segments), Fld(f, "CL"))
             ELSE IF rt = "EV"
             THEN (IF /\ extractEventId(Fld(f, "ID")) # ""
                      /\ (Supported(clSport) \/ Supported(Fld(f, "CL")))
                   THEN {extractEventId(Fld(f, "ID"))} ELSE {})
                      \cup ClaimedEvents(Tail(segments), clSport)
             ELSE ClaimedEvents(Tail(segments), clSport)

\* The EV records of a dump whose sport is registered, by event id, with the sport
\* and the name of the last of them.  The sport of an EV record is its own CL
\* field or, without one, the sport of the context: the CL of the most recent CL
\* record or of a later EV record that carried a registered CL.
RECURSIVE EventsCreated(_, _, _)
EventsCreated(segments, sport, created) ==
    IF Len(segments) = 0 THEN created
    ELSE LET f   == Head(segments).fields
             rt  == Head(segments).recordType
             own == IF Fld(f, "CL") # "" THEN f["CL"] ELSE sport
             id  == extractEventId(Fld(f, "ID"))
         IN  IF rt = "CL" THEN EventsCreated(Tail(segments), Fld(f, "CL"), created)
             ELSE IF rt = "EV"
             THEN EventsCreated(Tail(segments),
                                IF Supported(own) THEN own ELSE sport,
                                IF Supported(own) /\ id # ""
                                THEN (id :> [sportId |-> own, name |-> Fld(f, "NA"),
                                             es |-> Fld(f, "ES")]) @@ created
                                ELSE created)
             ELSE EventsCreated(Tail(segments), sport, created)

\* the match ids a dump starts from: none under a global header
DumpBase == IF LastSub.isGlobalDump THEN {} ELSE MatchIds(before.matches)

RECURSIVE WireContainment(_, _, _, _, _, _)
WireContainment(segments, sport, supported, ev, ma, held) ==
    IF Len(segments) = 0 THEN held
    ELSE LET f    == Head(segments).fields
             rt   == Head(segments).recordType
             rest == Tail(segments)
             own  == IF Fld(f, "CL") # "" THEN f["CL"] ELSE sport
             id   == extractEventId(Fld(f, "ID"))
         IN  IF rt = "CL"
             THEN WireContainment(rest, Fld(f, "CL"), Supported(Fld(f, "CL")), ev, ma, held)
             ELSE IF rt = "EV"
             THEN (IF Supported(own) /\ id # ""
                   THEN WireContainment(rest, own, TRUE, id, "", held)
                   ELSE WireContainment(rest, sport, supported, ev, "", held))
             ELSE IF rt = "MA" /\ supported /\ ev # ""
             THEN WireContainment(rest, sport, supported, ev, FldOr(f, "MA", "ID"),
                                  (<<ev, FldOr(f, "MA", "ID")>> :> <<>>) @@ held)
             ELSE IF rt = "PA" /\ supported /\ ev # "" /\ ma # ""
             THEN WireContainment(rest, sport, supported, ev, ma,
                                  (<<ev, ma>> :> Append(held[<<ev, ma>>], Fld(f, "ID"))) @@ held)
             ELSE WireContainment(rest, sport, supported, ev, ma, held)

\* the ids of the selections of a market, in order
SelectionIds(market) == [k \in 1..Len(market.selections) |-> market.selections[k].id]

\* the market of a match with the given id
MarketOf(match, marketId) == match.markets[marketIndex(match.markets, marketId)]

\* C20: after a full dump every market a MA record of the dump opened holds, in
\* wire order, exactly the PA records that followed the most recent MA record
\* with its id up to the next MA or EV; no PA record is in another market.
C20_SelectionsInLastOpenedMarket ==
    (OneDump /\ ~threw)
        => LET holds(held) ==
                   \A em \in DOMAIN held :
                       /\ em[1] \in MatchIds(matches)
                       /\ marketIndex(MatchOf(matches, em[1]).markets, em[2]) # 0
                       /\ SelectionIds(MarketOf(MatchOf(matches, em[1]), em[2])) = held[em]
           IN  holds(WireContainment(LastSub.segments, "", FALSE, "", "", EmptyMap))

\* the delta of InsertDelta under the suffix U
InsertDeltaAsUpdate == "OV2C1A_32_0U|SS=4-4;|"
DecodedInsertDeltaAsUpdate == decodeFrame(InsertDeltaAsUpdate)

\* C21: a sub-message whose header ends in I, on the event item id of a registered
\* match, changes the state and emits events as the same header with suffix U
\* does.
C21_InsertIsUpdate ==
    (lastRaw = InsertDelta /\ "2" \in MatchIds(before.matches))
        => /\ World = processDecoded(before, DecodedInsertDeltaAsUpdate).st
           /\ updates = processDecoded(before, DecodedInsertDeltaAsUpdate).updates

\* odds texts: fractions, no text, no slash, zero and non-numeric denominators,
\* non-numeric numerators
FractionInputs ==
    {"9/2", "1/7", "4/1", "0/1", "10/3", "", "SP", "5", "5/0", "5/", "5/x", "/",
     "evens/2", "/2", "x/0"}

\* the decimal the claim gives an odds text: n/d + 1 for numeric n and non-zero
\* numeric d, 0 for every other text
ClaimedDecimal(odds) ==
    IF ~Includes(odds, "/") THEN Zero
    ELSE LET of(n, d) ==
                 IF n.nan \/ d.nan \/ d.val = 0 THEN Zero
                 ELSE Rational(n.val + d.val, d.val)
             parts(nd) == of(ParseNumber(nd[1]), ParseNumber(nd[2]))
         IN  parts(Split(odds, "/"))

\* C22: fractionalToDecimal returns n/d + 1 for 'n/d' with numeric n and non-zero
\* numeric d and 0 for every other text, and so the decimal odds of every stored
\* selection are that function of its odds text and never a non-number.
C22_FractionalToDecimal ==
    /\ \A x \in FractionInputs : fractionalToDecimal(x) = ClaimedDecimal(x)
    /\ \A i \in 1..Len(matches) :
           \A j \in 1..Len(matches[i].markets) :
               \A k \in 1..Len(matches[i].markets[j].selections) :
                   /\ ~matches[i].markets[j].selections[k].oddsDecimal.nan
                   /\ matches[i].markets[j].selections[k].oddsDecimal
                          = ClaimedDecimal(matches[i].markets[j].selections[k].odds)

\* the inputs on which fractionalToDecimal is not the claimed function
FractionDivergence == {x \in FractionInputs : fractionalToDecimal(x) # ClaimedDecimal(x)}

\* event deltas on event 2 that carry ES alone: a value, and the empty text
EsOnlyStarted == decodeFrame("OV2C1A_32_0U|ES=1;|")
EsOnlyNotStarted == decodeFrame("OV2C1A_32_0U|ES=;|")

\* the status the claim gives an ES value
ClaimedStatus(es) == IF es = "" THEN "pre-match" ELSE "in-play"

\* C23: the status of a match a dump creates is pre-match for an empty or missing
\* ES and in-play otherwise; an event delta that carries ES sets the status of its
\* match in the same way and one that carries none leaves it; a delta that carries
\* ES alone emits no event; and liveMatches() is, in order, the matches of
\* allMatches() whose status is in-play.
C23_StatusFollowsES ==
    /\ (OneDump /\ ~threw)
           => LET holds(created) ==
                      \A id \in DOMAIN created :
                          MatchOf(matches, id).status = ClaimedStatus(created[id].es)
              IN  holds(EventsCreated(LastSub.segments, "", EmptyMap))
    /\ (EventDeltaResolved /\ LastSub.seg.action = "U")
           => MatchOf(matches, LastItem.eventId).status
                  = IF Has(LastSub.seg.fields, "ES")
                    THEN ClaimedStatus(LastSub.seg.fields["ES"])
                    ELSE MatchOf(before.matches, LastItem.eventId).status
    /\ "2" \in MatchIds(matches)
           => /\ LET silent(r) ==
                         /\ r.updates = <<>>
                         /\ MatchOf(r.st.matches, "2")
                                = [MatchOf(matches, "2") EXCEPT !.status = "in-play"]
                 IN  silent(processDecoded(World, EsOnlyStarted))
              /\ LET silent(r) ==
                         /\ r.updates = <<>>
                         /\ MatchOf(r.st.matches, "2")
                                = [MatchOf(matches, "2") EXCEPT !.status = "pre-match"]
                 IN  silent(processDecoded(World, EsOnlyNotStarted))
    /\ \A i \in 1..Len(matches) : matches[i].status \in {"pre-match", "in-play"}
    /\ LET live == getLiveMatches(World)
           all  == getAllMatches(World)
       IN  /\ \A i \in 1..Len(live) : live[i].status = "in-play"
           /\ Members(live) = {m \in Members(all) : m.status = "in-play"}
           /\ Len(live) = Cardinality({i \in 1..Len(all) : all[i].status = "in-play"})

\* C23 witness: an event delta with an empty ES was processed on a match that was
\* in play; the match is pre-match and no longer among the live matches.
C23_Witness ==
    /\ EventDeltaResolved
    /\ LastSub.seg.action = "U"
    /\ Has(LastSub.seg.fields, "ES")
    /\ MatchOf(before.matches, LastItem.eventId).status = "in-play"
    /\ MatchOf(matches, LastItem.eventId).status = "pre-match"
    /\ getLiveMatches(World) = <<>>
    /\ getAllMatches(World) # <<>>

\* Incremental sub-messages under a hierarchical header, each with the sub-message
\* whose header is the last segment alone: a delete and a score delta of event 2,
\* an odds delta of selection 31 of fixture 8, an odds delta between control bytes
PathPairs ==
    {<<PathDelete, "OV2C1A_32_0D|">>,
     <<"OVInPlay_32_0/OV2C1A_32_0U|SS=1-0;TU=20260225;ES=;|",
       "OV2C1A_32_0U|SS=1-0;TU=20260225;ES=;|">>,
     <<"OVInPlay_32_0/OV2C1A_32_0/OV8-31_32_0U|OD=6/4;|", "OV8-31_32_0U|OD=6/4;|">>,
     <<NAK \o "a/b/OV190340113-701873422_32_0" \o SOH \o "U|OD=4/1;|", FramedOdds>>}

DecodedPathPairs == [pq \in PathPairs |-> <<decodeFrame(pq[1]), decodeFrame(pq[2])>>]

\* C24: an incremental sub-message whose header contains '/' has the effect on the
\* state, and emits the events, of the sub-message whose header is the last
\* '/'-separated segment alone.
C24_LastPathSegment ==
    /\ \A pq \in PathPairs :
           /\ Includes(splitFrame(pq[1])[1][1], "/")
           /\ lastSegment(splitFrame(pq[1])[1][1]) = splitFrame(pq[2])[1][1]
           /\ Len(DecodedPathPairs[pq][1]) = 1
           /\ DecodedPathPairs[pq][1][1].kind = "U"
           /\ processDecoded(World, DecodedPathPairs[pq][1])
                  = processDecoded(World, DecodedPathPairs[pq][2])
    /\ lastRaw = PathDelete
           => LET same(r) == World = r.st /\ updates = r.updates /\ threw = r.threw
              IN  same(processDecoded(before, DecodedPathPairs[<<PathDelete, "OV2C1A_32_0D|">>][2]))

\* C24 witness: the delete under the hierarchical header was processed on a state
\* that held event 2; the match is gone and the delete event was returned.
C24_Witness ==
    /\ lastRaw = PathDelete
    /\ "2" \in MatchIds(before.matches)
    /\ "2" \notin MatchIds(matches)
    /\ Len(updates) = 1
    /\ updates[1].type = "delete"
    /\ updates[1].eventId = "2"

\* score texts: set lists, the empty text, missing sides, empty sets, text that is
\* no number, leading zeros, signs and blanks, trailing text, a third side
ScoreInputs ==
    {"3-6,1-0", "6-4,3-6,7-6", "", "7", "-", ",", "3-", "-3", "a-b", "03-006",
     " 3 - 6 ", "+3-5", "3x-6y", "1e5-2", "3.9-4", "3-6-9", "3-6,", ",2-1",
     "123456789-0"}

\* parseSetScores is stable under re-serialisation on the text x
StableUnderReserialisation(x) ==
    parseSetScores(serializeSets(parseSetScores(x))) = parseSetScores(x)

FieldInputs ==
    {"CL;CL=13;NA=Tennis;", "PA;ID=701873422;FI=190340113;OD=9/2;OR=0;SU=0;",
     "PI=0,1;XP=0-0;SS=3-6,1-0;", "", ";", ";;EV;;ID=1;;", "NA=a=b=c;", "=x;", "ES=;",
     "EV;MA;", "OD=1/1;OD=2/1;", "_type=PA;", "EV;_type=PA;", "MA", "toString=1;",
     "EV;ID=1;__proto__=2;"}

\* The mapping the claim gives a record body: over its non-empty ';'-separated
\* parts, a part with '=' is keyed by the text before its first '=' and valued by
\* the text after it, a part without '=' is keyed by _type and valued by itself,
\* and a key has the value of its last part.
ClaimedFields(body) ==
    LET of(parts) ==
            LET used     == {i \in 1..Len(parts) : parts[i] # ""}
                eq(i)    == IndexOf(parts[i], "=")
                keyOf(i) == IF eq(i) = 0 THEN "_type" ELSE Sub(parts[i], 1, eq(i) - 1)
                valOf(i) == IF eq(i) = 0 THEN parts[i] ELSE Slice(parts[i], eq(i) + 1)
            IN  [k \in {keyOf(i) : i \in used} |->
                    valOf(MaxOf({i \in used : keyOf(i) = k}))]
    IN  of(Split(body, ";"))

\* C26: parseFields maps a record body as the claim says: empty parts ignored, a
\* part with '=' stored under the text before its first '=', a part without '='
\* stored under _type, the last occurrence of a key kept, an empty body mapped to
\* the empty mapping; and the fields of the delta a call has just processed are
\* that mapping of its body.
C26_ParseFields ==
    /\ (OneSubMessage /\ LastSub.kind = "U")
           => LastSub.seg.fields = ClaimedFields(Trim(splitFrame(lastRaw)[1][2]))
    /\ \A body \in FieldInputs : parseFields(body) = ClaimedFields(body)

\* the record bodies on which parseFields is not the claimed mapping
FieldDivergence == {body \in FieldInputs : parseFields(body) # ClaimedFields(body)}

\* the payloads that contain a sub-message control byte, 0x14 or 0x15
ControlPayloads == {p \in Payloads : Includes(p, NAK) \/ Includes(p, DC4)}

\* a payload split at its control bytes alone: one sub-message for each piece
\* between them, its parts the pipe-separated parts of the piece
SplitAtControlBytes ==
    [p \in ControlPayloads |->
        [i \in 1..Len(cleanAndSplit(p)) |-> Split(cleanAndSplit(p)[i], "|")]]

\* the split and the sub-messages of each such payload
ControlFrames == [p \in ControlPayloads |-> splitFrame(p)]

\* C27: a payload that contains a 0x14 or 0x15 byte is split at the control bytes
\* alone, so a call on it processes one sub-message for each piece between them
\* and returns at most one event for each piece: a header-shaped part inside a
\* piece opens no sub-message.
C27_FallbackOnlyWithoutControlBytes ==
    lastRaw \in ControlPayloads
        => /\ ControlFrames[lastRaw] = SplitAtControlBytes[lastRaw]
           /\ Len(Decoded[lastRaw]) = Len(SplitAtControlBytes[lastRaw])
           /\ Len(updates) <= Len(SplitAtControlBytes[lastRaw])

\* a resolved event delta with action U
EventUpdateResolved == EventDeltaResolved /\ LastSub.seg.action = "U"

\* The change texts of the last event delta, read off the match before and after
\* it: sets for a set-scoring sport, else the raw score; the game; the serving
\* side.  The sport is the one the header of the delta names.
ScoreChanges(old, new, f, sportConfig) ==
    (IF Has(f, "SS") /\ sportConfig.usesSetScoring /\ old.sets # new.sets
     THEN <<"sets: " \o serializeSets(new.sets)>> ELSE <<>>)
    \o (IF Has(f, "SS") /\ ~sportConfig.usesSetScoring /\ old.scoreRaw # new.scoreRaw
        THEN <<"score: " \o new.scoreRaw>> ELSE <<>>)
    \o (IF Has(f, "XP") /\ sportConfig.hasPointScore /\ old.currentGame # new.currentGame
        THEN <<"game: " \o new.currentGame.p1 \o "-" \o new.currentGame.p2>> ELSE <<>>)
    \o (IF Has(f, "PI") /\ sportConfig.hasServing /\ old.serving # new.serving
        THEN <<"serving: P" \o ToString(new.serving)>> ELSE <<>>)

\* an event delta on event 2 that carries TU alone
TuOnly == decodeFrame("OV2C1A_32_0U|TU=20260301;|")

\* C28: an event-scoped U delta on a registered match returns one score event
\* exactly if the sets (set-scoring sport), the raw score (other sports), the
\* current game or the serving side changed value, its changes being the texts of
\* those changes in the order sets or score, game, serving; otherwise, as for a
\* delta with TU or ES alone or with the stored values, it returns nothing.  The
\* match is updated in both cases.
C28_ScoreEventOnChange ==
    /\ EventUpdateResolved
           => LET expect(changes) ==
                      /\ updates = IF changes = <<>> THEN <<>>
                                   ELSE <<[type |-> "score", eventId |-> LastItem.eventId,
                                           changes |-> changes]>>
                      /\ LastItem.eventId \in MatchIds(matches)
                      /\ Has(LastSub.seg.fields, "SS")
                             => MatchOf(matches, LastItem.eventId).scoreRaw
                                    = LastSub.seg.fields["SS"]
                      /\ Fld(LastSub.seg.fields, "TU") # ""
                             => MatchOf(matches, LastItem.eventId).lastUpdated
                                    = LastSub.seg.fields["TU"]
              IN  expect(ScoreChanges(MatchOf(before.matches, LastItem.eventId),
                                      MatchOf(matches, LastItem.eventId),
                                      LastSub.seg.fields,
                                      SPORT_REGISTRY[LastItem.categoryId]))
    /\ "2" \in MatchIds(matches)
           => LET silent(r) ==
                      /\ r.updates = <<>>
                      /\ MatchOf(r.st.matches, "2")
                             = [MatchOf(matches, "2") EXCEPT !.lastUpdated = "20260301"]
              IN  silent(processDecoded(World, TuOnly))

\* C28 witness: the S2 delta changed sets, game and serving side of a tennis match
\* and returned one score event with the three changes in that order.
C28_Witness ==
    /\ lastRaw = S2
    /\ EventUpdateResolved
    /\ Len(updates) = 1
    /\ updates[1].type = "score"
    /\ updates[1].changes = <<"sets: 3-6,1-0", "game: 0-0", "serving: P2">>

\* the S2 delta processed on a match that holds its values already
C28_SilentWitness ==
    /\ lastRaw = S2
    /\ EventUpdateResolved
    /\ before.matches = matches
    /\ updates = <<>>

\* a full dump under a header without "InPlay"
DetailDump == OneDump /\ ~LastSub.isGlobalDump

\* C29: a full dump under a header without 'InPlay' leaves every match that no EV
\* record of the dump creates as it was, with its place in the match table, and
\* removes no entry of fixtureToEvent, selectionInfo or itemToEvent: an entry of
\* fixtureToEvent or itemToEvent has its value from before or names an event the
\* dump created.
C29_DetailDumpKeepsOthers ==
    DetailDump
        => LET holds(created) ==
                   /\ \A i \in 1..Len(before.matches) :
                          before.matches[i].eventId \notin DOMAIN created
                              => /\ i <= Len(matches)
                                 /\ matches[i] = before.matches[i]
                   /\ DOMAIN before.fixtureToEvent \subseteq DOMAIN fixtureToEvent
                   /\ DOMAIN before.selectionInfo \subseteq DOMAIN selectionInfo
                   /\ DOMAIN before.itemToEvent \subseteq DOMAIN itemToEvent
                   /\ \A k \in DOMAIN before.fixtureToEvent :
                          \/ fixtureToEvent[k] = before.fixtureToEvent[k]
                          \/ fixtureToEvent[k] \in DOMAIN created
                   /\ \A k \in DOMAIN before.itemToEvent :
                          \/ itemToEvent[k] = before.itemToEvent[k]
                          \/ itemToEvent[k] \in DOMAIN created
           IN  holds(EventsCreated(LastSub.segments, "", EmptyMap))

\* C29 witness: the detail dump of event 3 was processed on a state that held
\* another match with markets and entries in the three indexes; the dump made its
\* match and the other one is as it was.
C29_Witness ==
    /\ lastRaw = SharedFixture
    /\ DetailDump
    /\ Len(before.matches) = 1
    /\ before.matches[1].eventId # "3"
    /\ before.matches[1].markets # <<>>
    /\ before.selectionInfo # EmptyMap
    /\ Len(matches) = 2
    /\ matches[1] = before.matches[1]
    /\ matches[2].eventId = "3"

\* the match a resolved selection delta was applied to, as it is after the call
ResolvedMatchAfter == MatchOf(matches, ResolvedMatch.eventId)

StoredSelections ==
    {<<i, j, k>> \in (1..Len(matches)) \X (1..3) \X (1..4) :
        /\ j <= Len(matches[i].markets)
        /\ k <= Len(matches[i].markets[j].selections)}

\* C31: after any sequence of full dumps and selection deltas, the decimal odds of
\* every stored selection are fractionalToDecimal of the fractional odds string
\* that is stored with it (NaN counts as the same value as NaN).
C31_DecimalFollowsFractional ==
    /\ \A i \in 1..Len(matches) :
          /\ Len(matches[i].markets) <= 3
          /\ \A j \in 1..Len(matches[i].markets) : Len(matches[i].markets[j].selections) <= 4
    /\ \A ijk \in StoredSelections :
          LET sel == matches[ijk[1]].markets[ijk[2]].selections[ijk[3]]
          IN  sel.oddsDecimal = fractionalToDecimal(sel.odds)

\* C31 witness: an odds delta has just replaced the fractional odds of a selection
\* that a dump had stored, and its decimal odds are those of the new string, not
\* of the old one.
C31_Witness ==
    /\ SelectionDeltaResolved
    /\ Has(LastSub.seg.fields, "OD")
    /\ \E ij \in SelectionsWithId(ResolvedMatch, LastItem.selectionId) :
          LET old == ResolvedMatch.markets[ij[1]].selections[ij[2]]
              new == ResolvedMatchAfter.markets[ij[1]].selections[ij[2]]
          IN  /\ new.odds = LastSub.seg.fields["OD"]
              /\ new.odds # old.odds
              /\ new.oddsDecimal = fractionalToDecimal(new.odds)
              /\ new.oddsDecimal # old.oddsDecimal
              /\ ~new.oddsDecimal.nan

\* the state manager as it was before the last call, in the parse context that a
\* dump of tennis match eventId under tournament "Left Over" would have left
InContextOf(eventId) ==
    [before EXCEPT !.inSupportedSport = TRUE,
                   !.currentSportId = "13",
                   !.currentTournament = "Left Over",
                   !.currentTournamentCode = "LO",
                   !.currentCategory = "L3",
                   !.lastEventId = eventId]

\* the tables of a state manager, without its parse context
Tables(st) ==
    [matches |-> st.matches, fixtureToEvent |-> st.fixtureToEvent,
     selectionInfo |-> st.selectionInfo, itemToEvent |-> st.itemToEvent]

\* C32: the parse context is reset at the start of every full dump.  What a dump
\* does is what it would have done in any parse context left by an earlier dump,
\* and an MA or PA record that comes before the first EV created in its own dump
\* adds no market, no selection and no selectionInfo entry, also when the dump
\* before ended on a created match.
C32_ContextResetPerDump ==
    /\ (OneDump /\ ~threw)
          => \A eventId \in {""} \cup MatchIds(before.matches) :
                LET same(r) == /\ ~r.threw
                               /\ r.updates = updates
                               /\ r.st = World
                IN  same(processDecoded(InContextOf(eventId), Decoded[lastRaw]))
    /\ lastRaw = StrayRecords
          => /\ Tables(World) = Tables(before)
             /\ lastEventId = ""
             /\ updates = <<>>

\* C32 witness: the dump of stray MA and PA records arrived when the dump before
\* it had ended in a registered sport on a match it had created and that holds a
\* market, and no table has changed.
C32_Witness ==
    /\ lastRaw = StrayRecords
    /\ before.inSupportedSport
    /\ before.lastEventId \in MatchIds(before.matches)
    /\ Len(MatchOf(before.matches, before.lastEventId).markets) > 0
    /\ Tables(World) = Tables(before)

\* headers of selection deltas that write the selection id with one leading zero:
\* prefix, fixture id, selection id
LeadingZeroHeaders ==
    {"OV", "6V", "6VP", "OVES"} \X {"8", "190340113"} \X {"32", "7", "0", "07", "701873422"}

\* the headers with a leading zero, under each suffix parseItemId strips, that it
\* does not classify as the selection of the fixture with the id without the zero
LeadingZeroMisparsed ==
    {hs \in LeadingZeroHeaders \X {"", "_32_0", "_32_0U", "_32U"} :
        parseItemId(hs[1][1] \o hs[1][2] \o "-0" \o hs[1][3] \o hs[2])
            # [UnknownId EXCEPT !.type = "selection",
                                !.fixtureId = hs[1][2],
                                !.selectionId = hs[1][3]]}

\* the delta of the payloads whose header writes selection 32 of fixture 8 as 032
LeadingZeroDelta == "OV8-032_32_0U|OD=5/2;SU=1;|"

\* C33: a selection delta whose header writes the selection id with one leading
\* zero is classified as a selection with that selection id, without the zero, and
\* it is applied to the stored selections with that id in the match its fixture
\* resolves to.
C33_LeadingZeroSelection ==
    /\ LeadingZeroMisparsed = {}
    /\ lastRaw = LeadingZeroDelta
          => /\ LastItem.type = "selection"
             /\ LastItem.fixtureId = "8"
             /\ LastItem.selectionId = "32"
             /\ SelectionDeltaResolved
                   <=> /\ "8" \in DOMAIN before.fixtureToEvent
                       /\ before.fixtureToEvent["8"] \in MatchIds(before.matches)
             /\ SelectionDeltaResolved
                   => /\ SelectionsWithId(ResolvedMatch, "32") # {}
                      /\ \A ij \in SelectionsWithId(ResolvedMatch, "32") :
                            LET new == ResolvedMatchAfter.markets[ij[1]].selections[ij[2]]
                            IN  /\ new.id = "32"
                                /\ new.odds = "5/2"
                                /\ new.suspended

\* C33 witness: the delta with the header OV8-032 was applied to a match that held
\* selection 32 at other odds, and the selection has the odds of the delta.
C33_Witness ==
    /\ lastRaw = LeadingZeroDelta
    /\ SelectionDeltaResolved
    /\ \E ij \in SelectionsWithId(ResolvedMatch, "32") :
          /\ ResolvedMatch.markets[ij[1]].selections[ij[2]].odds = "2/1"
          /\ ResolvedMatchAfter.markets[ij[1]].selections[ij[2]].odds = "5/2"

\* the MA and PA records of a dump whose nearest preceding EV record made no
\* match, because no event id can be extracted from its ID or because its sport
\* (its own CL, else the sport of the context) is not registered: record type and id
RECURSIVE AfterSkippedEV(_, _, _, _)
AfterSkippedEV(segments, sport, skipped, trail) ==
    IF Len(segments) = 0 THEN trail
    ELSE LET f   == Head(segments).fields
             rt  == Head(segments).recordType
             own == IF Fld(f, "CL") # "" THEN f["CL"] ELSE sport
         IN  IF rt = "CL" THEN AfterSkippedEV(Tail(segments), Fld(f, "CL"), skipped, trail)
             ELSE IF rt = "EV"
             THEN AfterSkippedEV(Tail(segments),
                                 IF Supported(own) THEN own ELSE sport,
                                 ~(Supported(own) /\ extractEventId(Fld(f, "ID")) # ""),
                                 trail)
             ELSE IF rt = "MA" /\ skipped
             THEN AfterSkippedEV(Tail(segments), sport, skipped,
                                 trail \cup {<<"MA", FldOr(f, "MA", "ID")>>})
             ELSE IF rt = "PA" /\ skipped
             THEN AfterSkippedEV(Tail(segments), sport, skipped,
                                 trail \cup {<<"PA", Fld(f, "ID")>>})
             ELSE AfterSkippedEV(Tail(segments), sport, skipped, trail)

\* the records after a skipped EV that a match made by the dump holds all the same
AttachedAfterSkippedEV(trail, created) ==
    {x \in trail :
        \E id \in created :
            \E j \in 1..Len(MatchOf(matches, id).markets) :
                \/ x = <<"MA", MatchOf(matches, id).markets[j].id>>
                \/ \E k \in 1..Len(MatchOf(matches, id).markets[j].selections) :
                      x = <<"PA", MatchOf(matches, id).markets[j].selections[k].id>>}

\* C34: in a full dump the MA and PA records that follow an EV record that was
\* skipped (its own CL names an unregistered sport, or no event id can be
\* extracted from its ID) are dropped: no match made earlier in the dump holds a
\* market or a selection of theirs.
C34_DroppedAfterSkippedEV ==
    (OneDump /\ ~threw)
        => AttachedAfterSkippedEV(AfterSkippedEV(LastSub.segments, "", FALSE, {}),
                                  DOMAIN EventsCreated(LastSub.segments, "", EmptyMap)) = {}

\* the last call carried incremental sub-messages only (U, D or I), at least one
OnlyDeltas ==
    /\ lastRaw \in Payloads
    /\ \A i \in 1..Len(Decoded[lastRaw]) : Decoded[lastRaw][i].kind \in {"U", "skip"}
    /\ \E i \in 1..Len(Decoded[lastRaw]) : Decoded[lastRaw][i].kind = "U"

\* the market ids of a match, each with the ids of its selections, in order
MarketShape(match) ==
    [j \in 1..Len(match.markets) |->
        <<match.markets[j].id, SelectionIds(match.markets[j])>>]

\* C35: incremental sub-messages create nothing.  After U, D and I sub-messages
\* every eventId of the match table was in it before, every match that is left
\* has the market ids and the selection ids it had, in the same order, and
\* fixtureToEvent, selectionInfo and itemToEvent are as they were.
C35_DeltasCreateNothing ==
    OnlyDeltas
        => /\ ~threw
           /\ MatchIds(matches) \subseteq MatchIds(before.matches)
           /\ \A id \in MatchIds(matches) :
                 MarketShape(MatchOf(matches, id)) = MarketShape(MatchOf(before.matches, id))
           /\ fixtureToEvent = before.fixtureToEvent
           /\ selectionInfo = before.selectionInfo
           /\ itemToEvent = before.itemToEvent

\* C35 witness: a delete took one match of two out of the table; the match that
\* is left holds a market with a selection, and the fixture and the item of the
\* deleted match are still in fixtureToEvent and itemToEvent.
C35_Witness ==
    /\ OnlyDeltas
    /\ Len(before.matches) = 2
    /\ Len(matches) = 1
    /\ MarketShape(matches[1]) # <<>>
    /\ \E s \in DOMAIN MarketShape(matches[1]) : MarketShape(matches[1])[s][2] # <<>>
    /\ \E id \in MatchIds(before.matches) \ MatchIds(matches) :
          /\ \E fx \in DOMAIN fixtureToEvent : fixtureToEvent[fx] = id
          /\ \E it \in DOMAIN itemToEvent : itemToEvent[it] = id

\* the last call carried one U sub-message (not a delete)
OneUpdate == OneSubMessage /\ LastSub.kind = "U" /\ LastSub.seg.action = "U"

\* C36: applying the same U sub-message, event-scoped or selection-scoped, a
\* second time in succession emits no event and leaves the whole state as it was
\* after the first application.
C36_UpdateIdempotent ==
    OneUpdate
        => LET nothing(r) == /\ ~r.threw
                             /\ r.updates = <<>>
                             /\ r.st = World
           IN  nothing(processDecoded(World, Decoded[lastRaw]))

\* C36 witness: an event-scoped U delta changed the match and emitted a score
\* event, and applied again it emits nothing and changes nothing.
C36_Witness ==
    /\ EventUpdateResolved
    /\ Len(updates) = 1
    /\ updates[1].type = "score"
    /\ matches # before.matches
    /\ processDecoded(World, Decoded[lastRaw]).updates = <<>>
    /\ processDecoded(World, Decoded[lastRaw]).st = World

\* the same for a selection-scoped U delta that changed the odds of a selection
\* two markets hold
C36_SelectionWitness ==
    /\ SelectionDeltaResolved
    /\ Len(updates) = 1
    /\ Len(updates[1].changes) = 2
    /\ matches # before.matches
    /\ processDecoded(World, Decoded[lastRaw]).updates = <<>>
    /\ processDecoded(World, Decoded[lastRaw]).st = World

\* The eventIds a D delta has removed and no full dump has made again: a match is
\* entered in itemToEvent when a dump makes it, a global dump empties the match
\* table and itemToEvent together, and nothing but a D delta takes a match out of
\* the table alone.
Removed(st) == {st.itemToEvent[k] : k \in DOMAIN st.itemToEvent} \ MatchIds(st.matches)

\* the eventId a delta of the last call is addressed to: the one of its header,
\* or the one its fixture maps to
Addressed(d) ==
    LET to(item) ==
            IF item.type = "event" THEN {item.eventId}
            ELSE IF item.type = "selection" /\ item.fixtureId \in DOMAIN before.fixtureToEvent
            THEN {before.fixtureToEvent[item.fixtureId]}
            ELSE {}
    IN  IF d.kind = "U" THEN to(parseItemId(stripAction(d.seg.header))) ELSE {}

\* C37: once a D delta has removed a match, U and D deltas addressed to its
\* eventId emit no event and the eventId stays out of the match table, and no
\* selection delta emits an event that carries it, until a full dump makes the
\* match again.
C37_RemovedStaysSilent ==
    /\ DeleteOfRegistered => DeletedMatch.eventId \in Removed(World)
    /\ OnlyDeltas
          => /\ Removed(before) \subseteq Removed(World)
             /\ \A i \in 1..Len(updates) : updates[i].eventId \notin Removed(before)
             /\ \A i \in 1..Len(updates) : updates[i].eventId \in MatchIds(before.matches)
             /\ MatchIds(matches) \subseteq MatchIds(before.matches)
             /\ \A i \in 1..Len(updates) : \A j \in (i + 1)..Len(updates) :
                   updates[i].type = "delete" => updates[j].eventId # updates[i].eventId

\* C37 witness: a U or D delta under the header of a match that a D delta had
\* removed emitted nothing, and the match is still out of the table.
C37_Witness ==
    /\ OneSubMessage
    /\ LastSub.kind = "U"
    /\ LastItem.type = "event"
    /\ Supported(LastItem.categoryId)
    /\ LastItem.eventId \in Removed(before)
    /\ updates = <<>>
    /\ LastItem.eventId \notin MatchIds(matches)
    /\ matches # <<>>

\* the same for a selection delta whose fixture maps to the removed match
C37_SelectionWitness ==
    /\ OneSubMessage
    /\ LastSub.kind = "U"
    /\ LastItem.type = "selection"
    /\ Addressed(LastSub) # {}
    /\ Addressed(LastSub) \subseteq Removed(before)
    /\ updates = <<>>
    /\ matches # <<>>

\* the same inside one frame: the delta after the delete emitted nothing
C37_FrameWitness ==
    /\ lastRaw = ScoreDeleteScore
    /\ Len(updates) = 2
    /\ updates[2].type = "delete"
    /\ Addressed(Decoded[lastRaw][3]) = {updates[2].eventId}

\* the list the frame-received handler logs after the last call; a call that
\* raised an exception is caught and logs no update
Handled == IF threw THEN <<>> ELSE mergeOdds(updates)

\* The coalesced list as the claim describes it: the updates that are not odds
\* updates and the first odds update of each event, in their order; an odds
\* update carries the changes of all odds updates of its event, in order.
ClaimedHandled(raw) ==
    LET kept == {i \in 1..Len(raw) :
                    \/ raw[i].type # "odds"
                    \/ \A j \in 1..(i - 1) :
                           ~(raw[j].type = "odds" /\ raw[j].eventId = raw[i].eventId)}
        nth(k) == CHOOSE i \in kept : Cardinality({j \in kept : j <= i}) = k
        allChanges(eventId) ==
            Flatten([i \in 1..Len(raw) |->
                        IF raw[i].type = "odds" /\ raw[i].eventId = eventId
                        THEN raw[i].changes ELSE <<>>])
    IN  [k \in 1..Cardinality(kept) |->
            IF raw[nth(k)].type = "odds"
            THEN [raw[nth(k)] EXCEPT !.changes = allChanges(raw[nth(k)].eventId)]
            ELSE raw[nth(k)]]

\* bound on the length of the update lists the merge is applied to
MaxUpdates == 4

\* lists of updates of two events; the update at place i carries one change
\* string of its own, the one at place 2 carries two
MergeInputs ==
    UNION {[1..n -> {"odds", "score", "delete"} \X {"190321250", "3"}] :
              n \in 0..MaxUpdates}

WithChanges(kinds) ==
    [i \in 1..Len(kinds) |->
        [type     |-> kinds[i][1],
         eventId  |-> kinds[i][2],
         changes  |-> IF i = 2 THEN <<"c2", "d2">> ELSE <<"c" \o ToString(i)>>]]

\* the lists on which the merge is not the coalesced list of the claim
MergeDivergence ==
    {kinds \in MergeInputs : mergeOdds(WithChanges(kinds)) # ClaimedHandled(WithChanges(kinds))}

\* C38: the frame-received handler coalesces the odds updates one processMessage
\* call returned by eventId: the handled list holds at most one odds update per
\* eventId, at the place of the first odds update of that event, with the changes
\* of all odds updates of the event in emission order; score and delete updates
\* are kept as they are, in their order.
C38_OddsCoalescedByEvent ==
    /\ MergeDivergence = {}
    /\ Handled = (IF threw THEN <<>> ELSE ClaimedHandled(updates))
    /\ \A i \in 1..Len(Handled) : \A j \in 1..Len(Handled) :
          (Handled[i].type = "odds" /\ Handled[j].type = "odds"
              /\ Handled[i].eventId = Handled[j].eventId) => i = j
    /\ SelectSeq(Handled, LAMBDA u : u.type # "odds")
          = SelectSeq(updates, LAMBDA u : u.type # "odds")

\* C38 witness: one call returned an odds update, the delete of another match and
\* a second odds update of the event of the first; the handled list is the odds
\* update with both changes, then the delete.
C38_Witness ==
    /\ lastRaw = OddsDeleteOdds
    /\ Len(updates) = 3
    /\ updates[1].type = "odds" /\ updates[2].type = "delete" /\ updates[3].type = "odds"
    /\ updates[1].eventId = updates[3].eventId
    /\ Len(Handled) = 2
    /\ Handled[1].type = "odds"
    /\ Handled[1].changes = updates[1].changes \o updates[3].changes
    /\ Handled[2] = updates[2]

====
